---- MODULE Spec2Model ----
(***************************************************************************)
(* Authentication / authorization core of the user service:                *)
(*   models/userModel.js        (schema, pre-save hooks, instance methods)  *)
(*   middleware/authMiddleware  (protect, authorize)                        *)
(*   middleware/errorHandler    (ApiError -> response)                      *)
(*   routes/authRoutes, routes/userRoutes (registration order of routes)    *)
(*   controllers/authController, controllers/userController                 *)
(* One action per HTTP endpoint; a request is handled atomically: Express   *)
(* dispatch, the middleware chain of the matched route, the handler, the    *)
(* pre-save hooks and the error handler are all part of the same step.      *)
(***************************************************************************)
EXTENDS Integers, Sequences, FiniteSets, TLC

VARIABLES
  users,      \* the users collection: _id -> document
  nextId,     \* next fresh _id (ObjectIds are never reused)
  clk,        \* index of the current instant on the clock grid
  tokens,     \* bearer tokens held by clients (issued, correctly signed)
  nextTicket, \* next fresh reset-ticket plaintext (crypto.randomBytes)
  redeemed,   \* history: ticket plaintexts that were successfully redeemed
  nextSalt,   \* next fresh bcrypt salt (bcrypt.genSalt)
  served,     \* number of requests handled so far
  last,       \* the request being answered and its response (Idle between requests)
  inflight    \* handlers suspended at an await, one per concurrent request

vars == <<users, nextId, clk, tokens, nextTicket, redeemed, nextSalt,
          served, last, inflight>>

----------------------------------------------------------------------------
(* Bounds of the model *)
MaxUsers == 3
MaxTokens == 3
MaxTickets == 2
MaxClock == 2
MaxRequests == 3
MaxInflight == 2
MaxQuarters == 16

(* Program constants *)
SkewMs == 1000
ResetWindowMs == 600000
JwtLifetimeSec == 86400
BcryptCost == 12
MsPerSec == 1000

Roles == {"user", "admin"}
Emails == {"a@x", "b@x", "c@x"}
Passwords == {"pw1", "pw2"}
Names == {"n1", "n2", "n3"}

Undefined == <<>>
Some(v) == <<v>>
IsSet(o) == o # <<>>
Val(o) == o[1]

----------------------------------------------------------------------------
(* Clock: Date.now() in milliseconds, read on a grid of instants that      *)
(* contains the start, the end of a reset window and the end of a token    *)
(* lifetime.  Requests handled in the same step-free interval read the     *)
(* same instant.                                                           *)
StartMs == 10 * MsPerSec

Instant(i) ==
  StartMs + (i % 2) * ResetWindowMs + (i \div 2) * (JwtLifetimeSec * MsPerSec)

Now == Instant(clk)

----------------------------------------------------------------------------
(* CredentialHasher: bcrypt.  A password field value is a plaintext        *)
(* (layers = 0) or the result of hashing it (layers counts the bcrypt      *)
(* applications); every generated salt is fresh.                           *)

Plain(p) == [layers |-> 0, plain |-> p, salt |-> 0, cost |-> 0]

BcryptHash(v, salt) ==
  [layers |-> v.layers + 1, plain |-> v.plain, salt |-> salt, cost |-> BcryptCost]

(* bcrypt.compare(candidate, stored): recompute with the embedded salt *)
BcryptCompare(cand, stored) ==
  /\ stored.layers = 1
  /\ BcryptHash(Plain(cand), stored.salt) = stored

(* crypto.createHash('sha256').update(x).digest('hex') *)
Sha256(x) == <<"sha256", x>>

----------------------------------------------------------------------------
(* userSchema: a new document with the schema defaults *)
NewUser(name, email, password, role) ==
  [ name |-> name, email |-> email, password |-> password,
    role |-> IF IsSet(role) THEN Val(role) ELSE "user",
    isActive |-> TRUE,
    lastLogin |-> Undefined,
    passwordResetToken |-> Undefined,
    passwordResetExpires |-> Undefined,
    passwordChangedAt |-> Undefined ]

(* variant: the hook hashes on every save *)
PreSaveHashEverySave(doc, pwModified, salt) ==
  [doc EXCEPT !.password = BcryptHash(doc.password, salt)]

(* pre('save') #1: hash the password only if it was modified *)
PreSaveHash(doc, pwModified, salt) ==
  IF ~pwModified THEN doc
  ELSE [doc EXCEPT !.password = BcryptHash(doc.password, salt)]

(* variant: the hook does not skip new documents *)
PreSaveChangedAtAlsoNew(doc, pwModified, isNew, t) ==
  IF ~pwModified THEN doc
  ELSE [doc EXCEPT !.passwordChangedAt = Some(t - SkewMs)]

(* variant: the second is added instead of subtracted *)
PreSaveChangedAtAddsSkew(doc, pwModified, isNew, t) ==
  IF ~pwModified \/ isNew THEN doc
  ELSE [doc EXCEPT !.passwordChangedAt = Some(t + SkewMs)]

(* pre('save') #2: passwordChangedAt = Date.now() - 1000 on a password     *)
(* change of an existing document                                          *)
PreSaveChangedAt(doc, pwModified, isNew, t) ==
  IF ~pwModified \/ isNew THEN doc
  ELSE [doc EXCEPT !.passwordChangedAt = Some(t - SkewMs)]

(* the unique index on email *)
EmailTaken(us, id, email) ==
  \E j \in DOMAIN us : j # id /\ us[j].email = email

DuplicateKeyError ==
  [name |-> "MongoServerError", statusCode |-> 0, code |-> 11000,
   message |-> "E11000 duplicate key error"]

CastError ==
  [name |-> "CastError", statusCode |-> 0, code |-> 0,
   message |-> "Cast to ObjectId failed"]

ValidationError ==
  [name |-> "ValidationError", statusCode |-> 0, code |-> 0,
   message |-> "Validation failed"]

ApiError(statusCode, message) ==
  [name |-> "ApiError", statusCode |-> statusCode, code |-> 0,
   message |-> message]

(* variant: the collection has no unique index on email *)
SaveUnindexed(us, id, doc, pwModified, isNew, salt, t) ==
  LET hashed == PreSaveHash(doc, pwModified, salt)
      stamped == PreSaveChangedAt(hashed, pwModified, isNew, t)
  IN [err |-> Undefined,
      users |-> [j \in DOMAIN us \cup {id} |-> IF j = id THEN stamped ELSE us[j]]]

(* bcrypt.genSalt / bcrypt.hash throw: the request draws no salt *)
NoSalt == 0

BcryptError ==
  [name |-> "Error", statusCode |-> 0, code |-> 0, message |-> "bcrypt failed"]

(* variant: the hash hook swallows the error and the document is written   *)
(* with the password as assigned                                           *)
SaveSwallowsHashError(us, id, doc, pwModified, isNew, salt, t) ==
  LET hashed == IF pwModified /\ salt = NoSalt THEN doc
                ELSE PreSaveHash(doc, pwModified, salt)
      stamped == PreSaveChangedAt(hashed, pwModified, isNew, t)
  IN IF EmailTaken(us, id, stamped.email)
     THEN [err |-> Some(DuplicateKeyError), users |-> us]
     ELSE [err |-> Undefined,
           users |-> [j \in DOMAIN us \cup {id} |->
                        IF j = id THEN stamped ELSE us[j]]]

(* document.save() / Model.create(): both hooks, then the write, which the *)
(* unique index may refuse; the hash hook passes a bcrypt error to next    *)
(* and nothing is written                                                  *)
Save(us, id, doc, pwModified, isNew, salt, t) ==
  IF pwModified /\ salt = NoSalt THEN [err |-> Some(BcryptError), users |-> us]
  ELSE
  LET hashed == PreSaveHash(doc, pwModified, salt)
      stamped == PreSaveChangedAt(hashed, pwModified, isNew, t)
  IN IF EmailTaken(us, id, stamped.email)
     THEN [err |-> Some(DuplicateKeyError), users |-> us]
     ELSE [err |-> Undefined,
           users |-> [j \in DOMAIN us \cup {id} |->
                        IF j = id THEN stamped ELSE us[j]]]

(* variant: every candidate is accepted *)
matchPasswordAny(doc, candidatePassword) == doc.password.layers = 1

(* userSchema.methods.matchPassword *)
matchPassword(doc, candidatePassword) ==
  BcryptCompare(candidatePassword, doc.password)

(* jwt.sign({id, role}, secret, {expiresIn}): iat and exp are in seconds *)
JwtSign(id, role, t) ==
  [id |-> id, role |-> role, iat |-> t \div MsPerSec,
   exp |-> (t \div MsPerSec) + JwtLifetimeSec, sig |-> "ok"]

generateAuthToken(id, doc, t) == JwtSign(id, doc.role, t)

(* jwt.verify: signature first, then expiry *)
JwtVerify(tok, t) ==
  IF tok.sig # "ok" THEN "JsonWebTokenError"
  ELSE IF (t \div MsPerSec) >= tok.exp THEN "TokenExpiredError"
  ELSE "valid"

(* variant: a token issued in the second of passwordChangedAt is stale too *)
passwordChangedAfterOrAt(doc, JWTTimestamp) ==
  IF IsSet(doc.passwordChangedAt)
  THEN JWTTimestamp <= (Val(doc.passwordChangedAt) \div MsPerSec)
  ELSE FALSE

(* userSchema.methods.passwordChangedAfter *)
passwordChangedAfter(doc, JWTTimestamp) ==
  IF IsSet(doc.passwordChangedAt)
  THEN JWTTimestamp < (Val(doc.passwordChangedAt) \div MsPerSec)
  ELSE FALSE

(* variant: only the digest is stored *)
generatePasswordResetTokenNoExpiry(doc, resetToken, t) ==
  [doc EXCEPT !.passwordResetToken = Some(Sha256(resetToken))]

(* variant: a ticket that is already stored is kept *)
generatePasswordResetTokenKeepsOld(doc, resetToken, t) ==
  IF IsSet(doc.passwordResetToken) THEN doc
  ELSE [doc EXCEPT !.passwordResetToken = Some(Sha256(resetToken)),
                   !.passwordResetExpires = Some(t + ResetWindowMs)]

(* userSchema.methods.generatePasswordResetToken, resetToken given *)
generatePasswordResetToken(doc, resetToken, t) ==
  [doc EXCEPT !.passwordResetToken = Some(Sha256(resetToken)),
              !.passwordResetExpires = Some(t + ResetWindowMs)]

----------------------------------------------------------------------------
(* middleware/errorHandler.js: error -> client-visible status and message *)
errorHandler(err) ==
  LET statusCode == IF err.statusCode # 0 THEN err.statusCode ELSE 500
  IN IF err.name = "ValidationError"
       THEN [status |-> 400, message |-> "Validation Error"]
     ELSE IF err.name = "CastError"
       THEN [status |-> 400, message |-> "Resource not found"]
     ELSE IF err.code = 11000
       THEN [status |-> 409, message |-> "Duplicate field value entered"]
     ELSE IF err.name = "JsonWebTokenError"
       THEN [status |-> 401, message |-> "Invalid token"]
     ELSE IF err.name = "TokenExpiredError"
       THEN [status |-> 401, message |-> "Token expired"]
     ELSE [status |-> statusCode, message |-> err.message]

----------------------------------------------------------------------------
(* middleware/authMiddleware.js *)

(* Authorization header: Undefined, or [scheme, cred] for "<scheme> <cred>" *)
BearerPrefixed == {"Bearer", "BearerX"}
StartsWithBearer(h) == h.scheme \in BearerPrefixed

ExtractToken(auth) ==
  IF IsSet(auth) /\ StartsWithBearer(Val(auth)) THEN Val(auth).cred
  ELSE Undefined

(* the identity protect attaches: the document loaded by findById *)
Attached(id, doc) == Some([id |-> id, role |-> doc.role, isActive |-> doc.isActive])

(* variant: the isActive check is missing *)
protectSkipsActiveCheck(auth, us, t) ==
  LET token == ExtractToken(auth)
  IN IF ~IsSet(token)
       THEN [err |-> Some(ApiError(401, "Not authorized, no token provided")),
             user |-> Undefined]
     ELSE LET decoded == Val(token)
              verdict == JwtVerify(decoded, t)
          IN IF verdict = "JsonWebTokenError"
               THEN [err |-> Some(ApiError(401, "Invalid token")), user |-> Undefined]
             ELSE IF verdict = "TokenExpiredError"
               THEN [err |-> Some(ApiError(401, "Token expired")), user |-> Undefined]
             ELSE IF decoded.id \notin DOMAIN us
               THEN [err |-> Some(ApiError(401, "User not found")), user |-> Undefined]
             ELSE [err |-> Undefined, user |-> Attached(decoded.id, us[decoded.id])]

(* variant: a missing user is reported as 404 *)
protectMissingUser404(auth, us, t) ==
  LET token == ExtractToken(auth)
  IN IF ~IsSet(token)
       THEN [err |-> Some(ApiError(401, "Not authorized, no token provided")),
             user |-> Undefined]
     ELSE LET decoded == Val(token)
              verdict == JwtVerify(decoded, t)
          IN IF verdict = "JsonWebTokenError"
               THEN [err |-> Some(ApiError(401, "Invalid token")), user |-> Undefined]
             ELSE IF verdict = "TokenExpiredError"
               THEN [err |-> Some(ApiError(401, "Token expired")), user |-> Undefined]
             ELSE IF decoded.id \notin DOMAIN us
               THEN [err |-> Some(ApiError(404, "User not found")), user |-> Undefined]
             ELSE IF ~us[decoded.id].isActive
               THEN [err |-> Some(ApiError(401, "User account is deactivated")),
                     user |-> Undefined]
             ELSE [err |-> Undefined, user |-> Attached(decoded.id, us[decoded.id])]

(* variant: a deactivated identity is answered 403 *)
protectInactive403(auth, us, t) ==
  LET token == ExtractToken(auth)
  IN IF ~IsSet(token)
       THEN [err |-> Some(ApiError(401, "Not authorized, no token provided")),
             user |-> Undefined]
     ELSE LET decoded == Val(token)
              verdict == JwtVerify(decoded, t)
          IN IF verdict = "JsonWebTokenError"
               THEN [err |-> Some(ApiError(401, "Invalid token")), user |-> Undefined]
             ELSE IF verdict = "TokenExpiredError"
               THEN [err |-> Some(ApiError(401, "Token expired")), user |-> Undefined]
             ELSE IF decoded.id \notin DOMAIN us
               THEN [err |-> Some(ApiError(401, "User not found")), user |-> Undefined]
             ELSE IF ~us[decoded.id].isActive
               THEN [err |-> Some(ApiError(403, "User account is deactivated")),
                     user |-> Undefined]
             ELSE [err |-> Undefined, user |-> Attached(decoded.id, us[decoded.id])]

(* variant: every verification failure is reported with the generic text *)
protectGenericFailure(auth, us, t) ==
  LET token == ExtractToken(auth)
  IN IF ~IsSet(token)
       THEN [err |-> Some(ApiError(401, "Not authorized, no token provided")),
             user |-> Undefined]
     ELSE LET decoded == Val(token)
              verdict == JwtVerify(decoded, t)
          IN IF verdict # "valid"
               THEN [err |-> Some(ApiError(401, "Not authorized")), user |-> Undefined]
             ELSE IF decoded.id \notin DOMAIN us
               THEN [err |-> Some(ApiError(401, "User not found")), user |-> Undefined]
             ELSE IF ~us[decoded.id].isActive
               THEN [err |-> Some(ApiError(401, "User account is deactivated")),
                     user |-> Undefined]
             ELSE [err |-> Undefined, user |-> Attached(decoded.id, us[decoded.id])]

(* variant: the role of the attached identity is the role claim of the   *)
(* token                                                                  *)
protectTrustsTokenRole(auth, us, t) ==
  LET token == ExtractToken(auth)
  IN IF ~IsSet(token)
       THEN [err |-> Some(ApiError(401, "Not authorized, no token provided")),
             user |-> Undefined]
     ELSE LET decoded == Val(token)
              verdict == JwtVerify(decoded, t)
          IN IF verdict = "JsonWebTokenError"
               THEN [err |-> Some(ApiError(401, "Invalid token")), user |-> Undefined]
             ELSE IF verdict = "TokenExpiredError"
               THEN [err |-> Some(ApiError(401, "Token expired")), user |-> Undefined]
             ELSE IF decoded.id \notin DOMAIN us
               THEN [err |-> Some(ApiError(401, "User not found")), user |-> Undefined]
             ELSE IF ~us[decoded.id].isActive
               THEN [err |-> Some(ApiError(401, "User account is deactivated")),
                     user |-> Undefined]
             ELSE [err |-> Undefined, user |-> Attached(decoded.id,
                             [us[decoded.id] EXCEPT !.role = decoded.role])]

(* protect: [err, user]; user is what is attached to req.user *)
protect(auth, us, t) ==
  LET token == ExtractToken(auth)
  IN IF ~IsSet(token)
       THEN [err |-> Some(ApiError(401, "Not authorized, no token provided")),
             user |-> Undefined]
     ELSE LET decoded == Val(token)
              verdict == JwtVerify(decoded, t)
          IN IF verdict = "JsonWebTokenError"
               THEN [err |-> Some(ApiError(401, "Invalid token")), user |-> Undefined]
             ELSE IF verdict = "TokenExpiredError"
               THEN [err |-> Some(ApiError(401, "Token expired")), user |-> Undefined]
             ELSE IF decoded.id \notin DOMAIN us
               THEN [err |-> Some(ApiError(401, "User not found")), user |-> Undefined]
             ELSE IF ~us[decoded.id].isActive
               THEN [err |-> Some(ApiError(401, "User account is deactivated")),
                     user |-> Undefined]
             ELSE [err |-> Undefined, user |-> Attached(decoded.id, us[decoded.id])]

(* a role value that is falsy in JavaScript (undefined, empty) *)
NoRole == ""

(* variant: any identity that has a role passes *)
authorizeAnyRole(roles, reqUser) ==
  IF ~IsSet(reqUser) \/ Val(reqUser).role = NoRole
    THEN Some(ApiError(403, "User role not defined"))
  ELSE Undefined

(* variant: a request without an attached identity passes *)
authorizeOpen(roles, reqUser) ==
  IF ~IsSet(reqUser) THEN Undefined
  ELSE IF Val(reqUser).role = NoRole
    THEN Some(ApiError(403, "User role not defined"))
  ELSE IF Val(reqUser).role \notin roles
    THEN Some(ApiError(403, "Role is not authorized to access this resource"))
  ELSE Undefined

(* authorize(...roles)(req): Undefined when next() is called, else the error *)
authorize(roles, reqUser) ==
  IF ~IsSet(reqUser) \/ Val(reqUser).role = NoRole
    THEN Some(ApiError(403, "User role not defined"))
  ELSE IF Val(reqUser).role \notin roles
    THEN Some(ApiError(403, "Role is not authorized to access this resource"))
  ELSE Undefined

(* validate(schema): the express-validator layer; the request carries      *)
(* whether its body and parameters satisfy the route's schema              *)
validate(req) ==
  IF req.bodyOk THEN Undefined ELSE Some(ApiError(400, "Validation failed"))

----------------------------------------------------------------------------
(* Controllers.  A handler yields the response (or the error passed to     *)
(* next), the collection after it, and the token / reset ticket returned.  *)
ResJson(status, message, us, token, ticket) ==
  [err |-> Undefined, status |-> status, message |-> message,
   users |-> us, token |-> token, ticket |-> ticket]

Fail(err, us) ==
  [err |-> Some(err), status |-> 0, message |-> "",
   users |-> us, token |-> Undefined, ticket |-> Undefined]

(* User.findOne({ email }) *)
FindByEmail(us, email) == {j \in DOMAIN us : us[j].email = email}

(* variant: the expiry is compared with $gte *)
FindByResetTokenGte(us, hashedToken, t) ==
  {j \in DOMAIN us :
     /\ us[j].passwordResetToken = Some(hashedToken)
     /\ IsSet(us[j].passwordResetExpires)
     /\ Val(us[j].passwordResetExpires) >= t}

(* User.findOne({ passwordResetToken, passwordResetExpires: { $gt: now } }) *)
FindByResetToken(us, hashedToken, t) ==
  {j \in DOMAIN us :
     /\ us[j].passwordResetToken = Some(hashedToken)
     /\ IsSet(us[j].passwordResetExpires)
     /\ Val(us[j].passwordResetExpires) > t}

(* variant: the role of the request body is stored *)
registerTakesRole(req, us, t, newId) ==
  IF FindByEmail(us, Val(req.body.email)) # {}
    THEN Fail(ApiError(409, "User with this email already exists"), us)
  ELSE LET doc == NewUser(Val(req.body.name), Val(req.body.email),
                          Plain(Val(req.body.password)), req.body.role)
           s == Save(us, newId, doc, TRUE, TRUE, req.salt, t)
       IN IF IsSet(s.err) THEN Fail(Val(s.err), us)
          ELSE ResJson(201, "registered", s.users,
                       Some(generateAuthToken(newId, s.users[newId], t)), Undefined)

(* authController.register *)
register(req, us, t, newId) ==
  IF FindByEmail(us, Val(req.body.email)) # {}
    THEN Fail(ApiError(409, "User with this email already exists"), us)
  ELSE LET doc == NewUser(Val(req.body.name), Val(req.body.email),
                          Plain(Val(req.body.password)), Undefined)
           s == Save(us, newId, doc, TRUE, TRUE, req.salt, t)
       IN IF IsSet(s.err) THEN Fail(Val(s.err), us)
          ELSE ResJson(201, "registered", s.users,
                       Some(generateAuthToken(newId, s.users[newId], t)), Undefined)

(* variant: lastLogin is stamped before the isActive check *)
loginStampsFirst(req, us, t) ==
  IF ~IsSet(req.body.email) \/ ~IsSet(req.body.password)
    THEN Fail(ApiError(400, "Please provide email and password"), us)
  ELSE
  LET found == FindByEmail(us, Val(req.body.email))
  IN IF found = {} \/ ~matchPassword(us[CHOOSE j \in found : TRUE], Val(req.body.password))
       THEN Fail(ApiError(401, "Invalid credentials"), us)
     ELSE LET id == CHOOSE j \in found : TRUE
              s == Save(us, id, [us[id] EXCEPT !.lastLogin = Some(t)],
                        FALSE, FALSE, req.salt, t)
          IN IF ~us[id].isActive
               THEN Fail(ApiError(401, "Your account has been deactivated"), s.users)
             ELSE IF IsSet(s.err) THEN Fail(Val(s.err), us)
             ELSE ResJson(200, "logged in", s.users,
                          Some(generateAuthToken(id, s.users[id], t)), Undefined)

(* authController.login *)
login(req, us, t) ==
  IF ~IsSet(req.body.email) \/ ~IsSet(req.body.password)
    THEN Fail(ApiError(400, "Please provide email and password"), us)
  ELSE
  LET found == FindByEmail(us, Val(req.body.email))
  IN IF found = {} \/ ~matchPassword(us[CHOOSE j \in found : TRUE], Val(req.body.password))
       THEN Fail(ApiError(401, "Invalid credentials"), us)
     ELSE LET id == CHOOSE j \in found : TRUE
          IN IF ~us[id].isActive
               THEN Fail(ApiError(401, "Your account has been deactivated"), us)
             ELSE LET s == Save(us, id, [us[id] EXCEPT !.lastLogin = Some(t)],
                                FALSE, FALSE, req.salt, t)
                  IN IF IsSet(s.err) THEN Fail(Val(s.err), us)
                     ELSE ResJson(200, "logged in", s.users,
                                  Some(generateAuthToken(id, s.users[id], t)), Undefined)

(* authController.getMe / logout *)
getMe(req, us) == ResJson(200, "profile", us, Undefined, Undefined)
logout(req, us) == ResJson(200, "Logged out successfully", us, Undefined, Undefined)

(* authController.forgotPassword; resetToken is the fresh random plaintext *)
forgotPassword(req, us, t, resetToken) ==
  LET found == FindByEmail(us, Val(req.body.email))
  IN IF found = {} THEN Fail(ApiError(404, "No user found with that email"), us)
     ELSE LET id == CHOOSE j \in found : TRUE
              s == Save(us, id, generatePasswordResetToken(us[id], resetToken, t),
                        FALSE, FALSE, req.salt, t)
          IN IF IsSet(s.err) THEN Fail(Val(s.err), us)
             ELSE ResJson(200, "Password reset token generated", s.users,
                          Undefined, Some(resetToken))

(* variant: the reset fields are not cleared by a successful reset *)
resetPasswordKeepsTicket(req, us, t) ==
  LET found == FindByResetToken(us, Sha256(req.param.n), t)
  IN IF found = {} THEN Fail(ApiError(400, "Invalid or expired token"), us)
     ELSE LET id == CHOOSE j \in found : TRUE
              doc == [us[id] EXCEPT !.password = Plain(Val(req.body.password))]
              s == Save(us, id, doc, TRUE, FALSE, req.salt, t)
          IN IF IsSet(s.err) THEN Fail(Val(s.err), us)
             ELSE ResJson(200, "Password reset successful", s.users,
                          Some(generateAuthToken(id, s.users[id], t)), Undefined)

(* variant: a rejected reset clears the reset fields of the ticket's owner *)
resetPasswordClearsOnReject(req, us, t) ==
  LET found == FindByResetToken(us, Sha256(req.param.n), t)
      owners == {j \in DOMAIN us : us[j].passwordResetToken = Some(Sha256(req.param.n))}
  IN IF found = {}
       THEN Fail(ApiError(400, "Invalid or expired token"),
                 [j \in DOMAIN us |->
                    IF j \in owners
                    THEN [us[j] EXCEPT !.passwordResetToken = Undefined,
                                       !.passwordResetExpires = Undefined]
                    ELSE us[j]])
     ELSE LET id == CHOOSE j \in found : TRUE
              doc == [us[id] EXCEPT !.password = Plain(Val(req.body.password)),
                                    !.passwordResetToken = Undefined,
                                    !.passwordResetExpires = Undefined]
              s == Save(us, id, doc, TRUE, FALSE, req.salt, t)
          IN IF IsSet(s.err) THEN Fail(Val(s.err), us)
             ELSE ResJson(200, "Password reset successful", s.users,
                          Some(generateAuthToken(id, s.users[id], t)), Undefined)

(* variant: a successful reset keeps the digest and clears the expiry, and *)
(* a ticket whose digest is found without expiry is reported as used       *)
resetPasswordMarksUsed(req, us, t) ==
  LET found == FindByResetToken(us, Sha256(req.param.n), t)
      used == {j \in DOMAIN us : /\ us[j].passwordResetToken = Some(Sha256(req.param.n))
                                 /\ ~IsSet(us[j].passwordResetExpires)}
  IN IF found = {} /\ used # {} THEN Fail(ApiError(400, "Token already used"), us)
     ELSE IF found = {} THEN Fail(ApiError(400, "Invalid or expired token"), us)
     ELSE LET id == CHOOSE j \in found : TRUE
              doc == [us[id] EXCEPT !.password = Plain(Val(req.body.password)),
                                    !.passwordResetExpires = Undefined]
              s == Save(us, id, doc, TRUE, FALSE, req.salt, t)
          IN IF IsSet(s.err) THEN Fail(Val(s.err), us)
             ELSE ResJson(200, "Password reset successful", s.users,
                          Some(generateAuthToken(id, s.users[id], t)), Undefined)

(* variant: a reset rejected for an expired ticket clears the reset fields *)
(* of the identity that holds the ticket                                   *)
resetPasswordClearsExpired(req, us, t) ==
  LET found == FindByResetToken(us, Sha256(req.param.n), t)
      lapsed == {j \in DOMAIN us : /\ us[j].passwordResetToken = Some(Sha256(req.param.n))
                                   /\ IsSet(us[j].passwordResetExpires)
                                   /\ Val(us[j].passwordResetExpires) <= t}
  IN IF found = {}
       THEN Fail(ApiError(400, "Invalid or expired token"),
                 [j \in DOMAIN us |->
                    IF j \in lapsed
                    THEN [us[j] EXCEPT !.passwordResetToken = Undefined,
                                       !.passwordResetExpires = Undefined]
                    ELSE us[j]])
     ELSE LET id == CHOOSE j \in found : TRUE
              doc == [us[id] EXCEPT !.password = Plain(Val(req.body.password)),
                                    !.passwordResetToken = Undefined,
                                    !.passwordResetExpires = Undefined]
              s == Save(us, id, doc, TRUE, FALSE, req.salt, t)
          IN IF IsSet(s.err) THEN Fail(Val(s.err), us)
             ELSE ResJson(200, "Password reset successful", s.users,
                          Some(generateAuthToken(id, s.users[id], t)), Undefined)

(* authController.resetPassword; req.param is the presented plaintext *)
resetPassword(req, us, t) ==
  LET found == FindByResetToken(us, Sha256(req.param.n), t)
  IN IF found = {} THEN Fail(ApiError(400, "Invalid or expired token"), us)
     ELSE LET id == CHOOSE j \in found : TRUE
              doc == [us[id] EXCEPT !.password = Plain(Val(req.body.password)),
                                    !.passwordResetToken = Undefined,
                                    !.passwordResetExpires = Undefined]
              s == Save(us, id, doc, TRUE, FALSE, req.salt, t)
          IN IF IsSet(s.err) THEN Fail(Val(s.err), us)
             ELSE ResJson(200, "Password reset successful", s.users,
                          Some(generateAuthToken(id, s.users[id], t)), Undefined)

(* variant: the new password is saved before the current one is checked *)
updatePasswordSavesFirst(req, reqUser, us, t) ==
  LET id == Val(reqUser).id
      doc == [us[id] EXCEPT !.password = Plain(Val(req.body.newPassword))]
      s == Save(us, id, doc, TRUE, FALSE, req.salt, t)
  IN IF ~matchPassword(us[id], Val(req.body.currentPassword))
       THEN Fail(ApiError(401, "Current password is incorrect"), s.users)
     ELSE IF IsSet(s.err) THEN Fail(Val(s.err), us)
     ELSE ResJson(200, "Password updated successfully", s.users,
                  Some(generateAuthToken(id, s.users[id], t)), Undefined)

(* variant: the password change also clears the reset fields *)
updatePasswordClearsTicket(req, reqUser, us, t) ==
  LET id == Val(reqUser).id
  IN IF ~matchPassword(us[id], Val(req.body.currentPassword))
       THEN Fail(ApiError(401, "Current password is incorrect"), us)
     ELSE LET doc == [us[id] EXCEPT !.password = Plain(Val(req.body.newPassword)),
                                    !.passwordResetToken = Undefined,
                                    !.passwordResetExpires = Undefined]
              s == Save(us, id, doc, TRUE, FALSE, req.salt, t)
          IN IF IsSet(s.err) THEN Fail(Val(s.err), us)
             ELSE ResJson(200, "Password updated successfully", s.users,
                          Some(generateAuthToken(id, s.users[id], t)), Undefined)

(* authController.updatePassword *)
updatePassword(req, reqUser, us, t) ==
  LET id == Val(reqUser).id
  IN IF ~matchPassword(us[id], Val(req.body.currentPassword))
       THEN Fail(ApiError(401, "Current password is incorrect"), us)
     ELSE LET doc == [us[id] EXCEPT !.password = Plain(Val(req.body.newPassword))]
              s == Save(us, id, doc, TRUE, FALSE, req.salt, t)
          IN IF IsSet(s.err) THEN Fail(Val(s.err), us)
             ELSE ResJson(200, "Password updated successfully", s.users,
                          Some(generateAuthToken(id, s.users[id], t)), Undefined)

----------------------------------------------------------------------------
(* controllers/userController.js.  A path segment is a literal or an _id;  *)
(* findById on a segment that is not an ObjectId throws a CastError.       *)
Lit(str) == [lit |-> str, n |-> 0]
Num(i) == [lit |-> "", n |-> i]
IsObjectId(seg) == seg.lit = ""

getUsers(req, us) == ResJson(200, "users", us, Undefined, Undefined)

getUserById(req, us) ==
  IF ~IsObjectId(req.param) THEN Fail(CastError, us)
  ELSE IF req.param.n \notin DOMAIN us THEN Fail(ApiError(404, "User not found"), us)
  ELSE ResJson(200, "user", us, Undefined, Undefined)

createUser(req, us, t, newId) ==
  IF FindByEmail(us, Val(req.body.email)) # {}
    THEN Fail(ApiError(409, "User with this email already exists"), us)
  ELSE LET doc == NewUser(Val(req.body.name), Val(req.body.email),
                          Plain(Val(req.body.password)), req.body.role)
           s == Save(us, newId, doc, TRUE, TRUE, req.salt, t)
       IN IF IsSet(s.err) THEN Fail(Val(s.err), us)
          ELSE ResJson(201, "created", s.users, Undefined, Undefined)

(* "if (field) user.field = field" *)
Assign(old, opt) == IF IsSet(opt) THEN Val(opt) ELSE old

updateUser(req, us, t) ==
  IF ~IsObjectId(req.param) THEN Fail(CastError, us)
  ELSE IF req.param.n \notin DOMAIN us THEN Fail(ApiError(404, "User not found"), us)
  ELSE LET id == req.param.n
           doc == [us[id] EXCEPT !.name = Assign(@, req.body.name),
                                 !.email = Assign(@, req.body.email),
                                 !.role = Assign(@, req.body.role),
                                 !.isActive = Assign(@, req.body.isActive)]
           s == Save(us, id, doc, FALSE, FALSE, req.salt, t)
       IN IF IsSet(s.err) THEN Fail(Val(s.err), us)
          ELSE ResJson(200, "updated", s.users, Undefined, Undefined)

(* variant: the acting identity may be the target *)
deleteUserAllowsSelf(req, reqUser, us) ==
  IF ~IsObjectId(req.param) THEN Fail(CastError, us)
  ELSE IF req.param.n \notin DOMAIN us THEN Fail(ApiError(404, "User not found"), us)
  ELSE ResJson(200, "deleted",
               [j \in DOMAIN us \ {req.param.n} |-> us[j]], Undefined, Undefined)

deleteUser(req, reqUser, us) ==
  IF ~IsObjectId(req.param) THEN Fail(CastError, us)
  ELSE IF req.param.n \notin DOMAIN us THEN Fail(ApiError(404, "User not found"), us)
  ELSE IF req.param.n = Val(reqUser).id
    THEN Fail(ApiError(400, "You cannot delete your own account"), us)
  ELSE ResJson(200, "deleted",
               [j \in DOMAIN us \ {req.param.n} |-> us[j]], Undefined, Undefined)

updateProfile(req, reqUser, us, t) ==
  LET id == Val(reqUser).id
      named == [us[id] EXCEPT !.name = Assign(@, req.body.name)]
      email == req.body.email
  IN IF IsSet(email) /\ Val(email) # us[id].email /\ FindByEmail(us, Val(email)) # {}
       THEN Fail(ApiError(409, "Email already in use"), us)
     ELSE LET doc == [named EXCEPT !.email = Assign(@, email)]
              s == Save(us, id, doc, FALSE, FALSE, req.salt, t)
          IN IF IsSet(s.err) THEN Fail(Val(s.err), us)
             ELSE ResJson(200, "profile updated", s.users, Undefined, Undefined)

(* the handler a route names *)
Handler(name, req, reqUser, us, t, newId, resetToken) ==
  CASE name = "register" -> register(req, us, t, newId)
    [] name = "login" -> login(req, us, t)
    [] name = "getMe" -> getMe(req, us)
    [] name = "forgotPassword" -> forgotPassword(req, us, t, resetToken)
    [] name = "resetPassword" -> resetPassword(req, us, t)
    [] name = "updatePassword" -> updatePassword(req, reqUser, us, t)
    [] name = "logout" -> logout(req, us)
    [] name = "getUsers" -> getUsers(req, us)
    [] name = "getUserById" -> getUserById(req, us)
    [] name = "createUser" -> createUser(req, us, t, newId)
    [] name = "updateUser" -> updateUser(req, us, t)
    [] name = "deleteUser" -> deleteUser(req, reqUser, us)
    [] name = "updateProfile" -> updateProfile(req, reqUser, us, t)

----------------------------------------------------------------------------
(* routes/authRoutes.js and routes/userRoutes.js: the routes of each       *)
(* router in registration order, each with its middleware chain            *)
Param == [lit |-> ":", n |-> 0]

MwProtect == [mw |-> "protect", roles |-> {}, name |-> "protect"]
MwAuthorize(roles) == [mw |-> "authorize", roles |-> roles, name |-> "authorize"]
MwValidate == [mw |-> "validate", roles |-> {}, name |-> "validate"]
MwHandler(name) == [mw |-> "handler", roles |-> {}, name |-> name]

Route(method, pattern, chain) ==
  [method |-> method, pattern |-> pattern, chain |-> chain]

authRoutes ==
  << Route("POST", <<Lit("register")>>, <<MwValidate, MwHandler("register")>>),
     Route("POST", <<Lit("login")>>, <<MwValidate, MwHandler("login")>>),
     Route("GET", <<Lit("me")>>, <<MwProtect, MwHandler("getMe")>>),
     Route("POST", <<Lit("forgotpassword")>>,
           <<MwValidate, MwHandler("forgotPassword")>>),
     Route("PUT", <<Lit("resetpassword"), Param>>,
           <<MwValidate, MwHandler("resetPassword")>>),
     Route("PUT", <<Lit("updatepassword")>>,
           <<MwProtect, MwValidate, MwHandler("updatePassword")>>),
     Route("GET", <<Lit("logout")>>, <<MwProtect, MwHandler("logout")>>) >>

(* variant: DELETE /:id is registered without authorize *)
userRoutesDeleteUnguarded ==
  << Route("GET", <<>>,
           <<MwProtect, MwAuthorize({"admin"}), MwHandler("getUsers")>>),
     Route("GET", <<Param>>,
           <<MwProtect, MwAuthorize({"admin"}), MwValidate, MwHandler("getUserById")>>),
     Route("POST", <<>>,
           <<MwProtect, MwAuthorize({"admin"}), MwValidate, MwHandler("createUser")>>),
     Route("PUT", <<Param>>,
           <<MwProtect, MwAuthorize({"admin"}), MwValidate, MwHandler("updateUser")>>),
     Route("DELETE", <<Param>>,
           <<MwProtect, MwValidate, MwHandler("deleteUser")>>),
     Route("PUT", <<Lit("profile")>>,
           <<MwProtect, MwValidate, MwHandler("updateProfile")>>) >>

(* variant: PUT /:id is registered without authorize *)
userRoutesUpdateUnguarded ==
  << Route("GET", <<>>,
           <<MwProtect, MwAuthorize({"admin"}), MwHandler("getUsers")>>),
     Route("GET", <<Param>>,
           <<MwProtect, MwAuthorize({"admin"}), MwValidate, MwHandler("getUserById")>>),
     Route("POST", <<>>,
           <<MwProtect, MwAuthorize({"admin"}), MwValidate, MwHandler("createUser")>>),
     Route("PUT", <<Param>>,
           <<MwProtect, MwValidate, MwHandler("updateUser")>>),
     Route("DELETE", <<Param>>,
           <<MwProtect, MwAuthorize({"admin"}), MwValidate, MwHandler("deleteUser")>>),
     Route("PUT", <<Lit("profile")>>,
           <<MwProtect, MwValidate, MwHandler("updateProfile")>>) >>

userRoutes ==
  << Route("GET", <<>>,
           <<MwProtect, MwAuthorize({"admin"}), MwHandler("getUsers")>>),
     Route("GET", <<Param>>,
           <<MwProtect, MwAuthorize({"admin"}), MwValidate, MwHandler("getUserById")>>),
     Route("POST", <<>>,
           <<MwProtect, MwAuthorize({"admin"}), MwValidate, MwHandler("createUser")>>),
     Route("PUT", <<Param>>,
           <<MwProtect, MwAuthorize({"admin"}), MwValidate, MwHandler("updateUser")>>),
     Route("DELETE", <<Param>>,
           <<MwProtect, MwAuthorize({"admin"}), MwValidate, MwHandler("deleteUser")>>),
     Route("PUT", <<Lit("profile")>>,
           <<MwProtect, MwValidate, MwHandler("updateProfile")>>) >>

(* app.use('/api/auth', authRoutes); app.use('/api/users', userRoutes) *)
Router(mount) == IF mount = "auth" THEN authRoutes ELSE userRoutes

(* Express path matching: a parameter matches any one segment *)
Matches(route, method, path) ==
  /\ route.method = method
  /\ Len(route.pattern) = Len(path)
  /\ \A k \in 1..Len(path) : route.pattern[k] = Param \/ route.pattern[k] = path[k]

(* the first registered route that matches; the last path segment is the   *)
(* route parameter when the pattern ends in one                            *)
Dispatch(mount, method, path) ==
  LET table == Router(mount)
      hits == {k \in 1..Len(table) : Matches(table[k], method, path)}
  IN table[CHOOSE k \in hits : \A m \in hits : k <= m]

RouteHandler(route) == route.chain[Len(route.chain)].name

(* run the chain from its i-th middleware; next(err) goes to errorHandler *)
Rejected(err, reqUser, ran, us) ==
  LET r == errorHandler(err)
  IN [status |-> r.status, message |-> r.message, users |-> us,
      token |-> Undefined, ticket |-> Undefined, user |-> reqUser, ran |-> ran,
      raised |-> Some(err)]

RECURSIVE RunChain(_, _, _, _, _, _, _, _)
RunChain(chain, i, req, reqUser, ran, us, t, fresh) ==
  IF i > Len(chain)
  THEN [status |-> 0, message |-> "", users |-> us, token |-> Undefined,
        ticket |-> Undefined, user |-> reqUser, ran |-> ran, raised |-> Undefined]
  ELSE
  LET m == chain[i]
      ran2 == Append(ran, m.name)
  IN CASE m.mw = "protect" ->
            LET r == protect(req.auth, us, t)
            IN IF IsSet(r.err) THEN Rejected(Val(r.err), reqUser, ran2, us)
               ELSE RunChain(chain, i + 1, req, r.user, ran2, us, t, fresh)
       [] m.mw = "authorize" ->
            LET e == authorize(m.roles, reqUser)
            IN IF IsSet(e) THEN Rejected(Val(e), reqUser, ran2, us)
               ELSE RunChain(chain, i + 1, req, reqUser, ran2, us, t, fresh)
       [] m.mw = "validate" ->
            LET e == validate(req)
            IN IF IsSet(e) THEN Rejected(Val(e), reqUser, ran2, us)
               ELSE RunChain(chain, i + 1, req, reqUser, ran2, us, t, fresh)
       [] m.mw = "handler" ->
            LET h == Handler(m.name, req, reqUser, us, t, fresh.newId, fresh.resetToken)
            IN IF IsSet(h.err) THEN Rejected(Val(h.err), reqUser, ran2, h.users)
               ELSE [status |-> h.status, message |-> h.message, users |-> h.users,
                     token |-> h.token, ticket |-> h.ticket,
                     user |-> reqUser, ran |-> ran2, raised |-> Undefined]

----------------------------------------------------------------------------
(* The state machine *)

EmptyStore == [j \in {} |-> 0]

(* the collection a deployment starts with: an admin and a regular user,   *)
(* created with User.create, each holding a token                          *)
SeedUsers ==
  LET one == Save(EmptyStore, 1,
                  NewUser("n1", "a@x", Plain("pw1"), Some("admin")),
                  TRUE, TRUE, 1, StartMs).users
  IN Save(one, 2, NewUser("n2", "b@x", Plain("pw2"), Some("user")),
          TRUE, TRUE, 2, StartMs).users

(* req.body *)
Body(name, email, password, role, isActive, currentPassword, newPassword) ==
  [name |-> name, email |-> email, password |-> password, role |-> role,
   isActive |-> isActive, currentPassword |-> currentPassword,
   newPassword |-> newPassword]

NoBody == Body(Undefined, Undefined, Undefined, Undefined, Undefined, Undefined, Undefined)

Idle ==
  [op |-> "idle", route |-> "none", status |-> 0, message |-> "", user |-> 0,
   role |-> NoRole, required |-> {}, ran |-> <<>>, scheme |-> "", log |-> {},
   body |-> NoBody,
   tok |-> Undefined, token |-> Undefined, param |-> 0, ticket |-> Undefined]

(* a handler that has not been entered *)
Workers == 1..MaxInflight

IdleWorker ==
  [pc |-> "idle", op |-> "", email |-> "", id |-> 0, status |-> 0,
   message |-> "", token |-> Undefined, errName |-> "", ticket |-> 0]

NoInflight == [w \in Workers |-> IdleWorker]

Init ==
  /\ inflight = NoInflight
  /\ users = SeedUsers
  /\ nextId = 3
  /\ clk = 0
  /\ tokens = {generateAuthToken(j, SeedUsers[j], StartMs) : j \in DOMAIN SeedUsers}
  /\ nextTicket = 1
  /\ redeemed = {}
  /\ nextSalt = 3
  /\ served = 0
  /\ last = Idle

(* inputs *)
Opt(S) == {Undefined} \cup {Some(v) : v \in S}
(* a token that was not signed with the secret, whatever it claims *)
Forged == [JwtSign(1, "admin", StartMs) EXCEPT !.sig = "bad"]
Presentable == tokens \cup {Forged}
AuthHeaders ==
  {Undefined, Some([scheme |-> "Basic", cred |-> Undefined])} \cup
  {Some([scheme |-> "Bearer", cred |-> c]) : c \in Opt(Presentable)}
(* every form of header: also a first word that merely starts with Bearer *)
HeaderForms ==
  AuthHeaders \cup
  {Some([scheme |-> "BearerX", cred |-> c]) : c \in Opt(Presentable)}
NoAuth == Undefined
Ids == 1..MaxUsers
Tickets == 1..MaxTickets

Request(mount, method, path, auth, bodyOk) ==
  [mount |-> mount, method |-> method, path |-> path, auth |-> auth,
   body |-> NoBody, bodyOk |-> bodyOk, salt |-> nextSalt,
   param |-> IF Len(path) > 0 THEN path[Len(path)] ELSE Lit("")]

With(req, body) == [req EXCEPT !.body = body]

Fresh == [newId |-> nextId, resetToken |-> nextTicket]

(* the response of the service to req in the current state *)
Outcome(req) ==
  RunChain(Dispatch(req.mount, req.method, req.path).chain, 1, req, Undefined,
           <<>>, users, Now, Fresh)

(* the middleware in front of the matched handler lets req through *)
Admits(req) ==
  LET chain == Dispatch(req.mount, req.method, req.path).chain
  IN RunChain(SubSeq(chain, 1, Len(chain) - 1), 1, req, Undefined, <<>>,
              users, Now, Fresh).status = 0

(* the bodies worth sending: a request stopped by the middleware never     *)
(* reads its body                                                          *)
BodiesFor(req, bodies) == IF Admits(req) THEN bodies ELSE {NoBody}

HandlerRan(l) ==
  Len(l.ran) > 0 /\ l.ran[Len(l.ran)] \notin {"protect", "authorize", "validate"}

(* Log events.  An event carries its logger, level and message text, the  *)
(* URL it prints (path segments, empty when it prints none) and the email  *)
(* it names (empty when it names none).                                    *)
(* req.originalUrl, which is also req.path once the error has left the     *)
(* router: the mount point followed by the path inside the router          *)
OriginalUrl(req) == <<Lit("api"), Lit(req.mount)>> \o req.path

(* morgan('combined'): one line per request with method, URL and status;   *)
(* no header value is printed except referrer and user-agent               *)
MorganLine(req, out) ==
  {[logger |-> "morgan", level |-> "info", text |-> req.method,
    url |-> OriginalUrl(req), subject |-> ""]}

(* the logging step of errorHandler: the raw message, with path and method *)
errorHandlerLog(req, out) ==
  IF ~IsSet(out.raised) THEN {}
  ELSE LET err == Val(out.raised)
       IN {[logger |-> "errorHandler",
            level |-> IF err.statusCode = 0 \/ err.statusCode >= 500
                      THEN "error" ELSE "warn",
            text |-> err.message, url |-> OriginalUrl(req), subject |-> ""]}

(* logger.info / logger.warn of the controllers; us is the collection the  *)
(* request found                                                           *)
ControllerLog(chain, req, out, us) ==
  LET name == chain[Len(chain)].name
      ran == out.ran # <<>> /\ out.ran[Len(out.ran)] = name
      done == ran /\ out.status \in {200, 201}
      Info(text, email) ==
        {[logger |-> "controller", level |-> "info", text |-> text,
          url |-> <<>>, subject |-> email]}
  IN IF ran /\ name = "login" /\ out.message = "Invalid credentials"
       THEN {[logger |-> "controller", level |-> "warn",
              text |-> "Failed login attempt for email", url |-> <<>>,
              subject |-> Val(req.body.email)]}
     ELSE IF ~done THEN {}
     ELSE CASE name = "register" -> Info("New user registered", Val(req.body.email))
            [] name = "login" -> Info("User logged in", Val(req.body.email))
            [] name = "forgotPassword" ->
                 Info("Password reset requested for", Val(req.body.email))
            [] name = "resetPassword" ->
                 Info("Password reset successful for",
                      out.users[Val(out.token).id].email)
            [] name = "updatePassword" ->
                 Info("Password updated for user", out.users[Val(out.user).id].email)
            [] name = "logout" -> Info("User logged out", us[Val(out.user).id].email)
            [] name = "createUser" -> Info("Admin created new user", Val(req.body.email))
            [] name = "updateUser" ->
                 Info("Admin updated user", out.users[req.param.n].email)
            [] name = "deleteUser" -> Info("Admin deleted user", us[req.param.n].email)
            [] name = "updateProfile" ->
                 Info("User updated profile", out.users[Val(out.user).id].email)
            [] OTHER -> {}

(* what is recorded of a request and its response *)
Served(op, chain, req, out) ==
  [op |-> op, route |-> chain[Len(chain)].name, status |-> out.status,
   message |-> out.message,
   user |-> IF IsSet(out.user) THEN Val(out.user).id ELSE 0,
   role |-> IF IsSet(out.user) THEN Val(out.user).role ELSE NoRole,
   required |-> UNION {chain[k].roles : k \in 1..Len(out.ran)},
   ran |-> out.ran,
   scheme |-> IF IsSet(req.auth) THEN Val(req.auth).scheme ELSE "",
   body |-> req.body,
   log |-> MorganLine(req, out) \cup errorHandlerLog(req, out)
             \cup ControllerLog(chain, req, out, users),
   tok |-> ExtractToken(req.auth),
   token |-> out.token, param |-> req.param.n, ticket |-> out.ticket]

(* the service is waiting for a request *)
Ready == last = Idle /\ served < MaxRequests

(* one HTTP request handled to its response; the client keeps the token   *)
(* of the response while it has room                                       *)
Handle(op, req) ==
  \E out \in {Outcome(req)} :
    LET route == Dispatch(req.mount, req.method, req.path)
        handler == RouteHandler(route)
        holds == IF IsSet(out.token)
                 THEN tokens \cup {Val(out.token)} ELSE tokens
    IN /\ DOMAIN out.users \subseteq 1..MaxUsers
       /\ IsSet(out.ticket) => nextTicket <= MaxTickets
       /\ users' = out.users
       /\ nextId' = IF nextId \in DOMAIN out.users THEN nextId + 1 ELSE nextId
       /\ nextTicket' = IF IsSet(out.ticket) THEN nextTicket + 1 ELSE nextTicket
       /\ tokens' = IF Cardinality(holds) <= MaxTokens THEN holds ELSE tokens
       /\ redeemed' = IF handler = "resetPassword" /\ out.status = 200
                      THEN redeemed \cup {req.param.n} ELSE redeemed
       /\ clk' = clk
       /\ nextSalt' = IF \E j \in DOMAIN out.users :
                              out.users[j].password.salt = nextSalt
                       THEN nextSalt + 1 ELSE nextSalt
       /\ served' = served + 1
       /\ last' = Served(op, route.chain, req, out)
       /\ inflight' = inflight

(* request bodies *)
NewNames == {"n3"}

SignupBodies(roles) ==
  {Body(Some(nm), Some(em), Some(pw), role, Undefined, Undefined, Undefined) :
     nm \in NewNames, em \in Emails, pw \in Passwords, role \in roles}

(* a login body may lack a field: login has its own check for that *)
CredentialBodies ==
  {Body(Undefined, em, pw, Undefined, Undefined, Undefined, Undefined) :
     em \in {Undefined, Some("a@x"), Some("b@x"), Some("c@x")},
     pw \in {Undefined, Some("pw1"), Some("pw2")}}

EmailBodies ==
  {Body(Undefined, Some(em), Undefined, Undefined, Undefined, Undefined, Undefined) :
     em \in Emails}

NewPasswordBodies ==
  {Body(Undefined, Undefined, Some(pw), Undefined, Undefined, Undefined, Undefined) :
     pw \in Passwords}

ChangePasswordBodies ==
  {Body(Undefined, Undefined, Undefined, Undefined, Undefined, Some(cur), Some(new)) :
     cur \in Passwords, new \in Passwords}

(* updates of at most one field *)
UpdateBodies ==
  {NoBody}
  \cup {[NoBody EXCEPT !.name = Some(nm)] : nm \in Names}
  \cup {[NoBody EXCEPT !.email = Some(em)] : em \in Emails}
  \cup {[NoBody EXCEPT !.role = Some(r)] : r \in Roles}
  \cup {[NoBody EXCEPT !.isActive = Some(a)] : a \in BOOLEAN}

ProfileBodies ==
  {NoBody}
  \cup {[NoBody EXCEPT !.name = Some(nm)] : nm \in Names}
  \cup {[NoBody EXCEPT !.email = Some(em)] : em \in Emails}

PostRegister ==
  /\ Ready
  /\ \E ok \in BOOLEAN :
       LET req == Request("auth", "POST", <<Lit("register")>>, NoAuth, ok)
       IN \E b \in BodiesFor(req, SignupBodies(Opt(Roles))) :
            Handle("POST /api/auth/register", With(req, b))

PostLogin ==
  /\ Ready
  /\ \E ok \in BOOLEAN :
       LET req == Request("auth", "POST", <<Lit("login")>>, NoAuth, ok)
       IN \E b \in BodiesFor(req, CredentialBodies) :
            Handle("POST /api/auth/login", With(req, b))

GetMe ==
  /\ Ready
  /\ \E auth \in HeaderForms :
       Handle("GET /api/auth/me", Request("auth", "GET", <<Lit("me")>>, auth, TRUE))

PostForgotPassword ==
  /\ Ready
  /\ \E ok \in BOOLEAN :
       LET req == Request("auth", "POST", <<Lit("forgotpassword")>>, NoAuth, ok)
       IN \E b \in BodiesFor(req, EmailBodies) :
            Handle("POST /api/auth/forgotpassword", With(req, b))

PutResetPassword ==
  /\ Ready
  /\ \E x \in Tickets, ok \in BOOLEAN :
       LET req == Request("auth", "PUT", <<Lit("resetpassword"), Num(x)>>, NoAuth, ok)
       IN \E b \in BodiesFor(req, NewPasswordBodies) :
            Handle("PUT /api/auth/resetpassword/:resettoken", With(req, b))

PutUpdatePassword ==
  /\ Ready
  /\ \E auth \in AuthHeaders, ok \in BOOLEAN :
       LET req == Request("auth", "PUT", <<Lit("updatepassword")>>, auth, ok)
       IN \E b \in BodiesFor(req, ChangePasswordBodies) :
            Handle("PUT /api/auth/updatepassword", With(req, b))

GetLogout ==
  /\ Ready
  /\ \E auth \in AuthHeaders :
       Handle("GET /api/auth/logout",
              Request("auth", "GET", <<Lit("logout")>>, auth, TRUE))

GetUsers ==
  /\ Ready
  /\ \E auth \in AuthHeaders :
       Handle("GET /api/users", Request("users", "GET", <<>>, auth, TRUE))

GetUserById ==
  /\ Ready
  /\ \E auth \in AuthHeaders, id \in Ids, ok \in BOOLEAN :
       Handle("GET /api/users/:id", Request("users", "GET", <<Num(id)>>, auth, ok))

PostUsers ==
  /\ Ready
  /\ \E auth \in AuthHeaders, ok \in BOOLEAN :
       LET req == Request("users", "POST", <<>>, auth, ok)
       IN \E b \in BodiesFor(req, SignupBodies(Opt(Roles))) :
            Handle("POST /api/users", With(req, b))

PutUserById ==
  /\ Ready
  /\ \E auth \in AuthHeaders, id \in Ids, ok \in BOOLEAN :
       LET req == Request("users", "PUT", <<Num(id)>>, auth, ok)
       IN \E b \in BodiesFor(req, UpdateBodies) :
            Handle("PUT /api/users/:id", With(req, b))

DeleteUserById ==
  /\ Ready
  /\ \E auth \in AuthHeaders, id \in Ids, ok \in BOOLEAN :
       Handle("DELETE /api/users/:id",
              Request("users", "DELETE", <<Num(id)>>, auth, ok))

PutUsersProfile ==
  /\ Ready
  /\ \E auth \in AuthHeaders, ok \in BOOLEAN :
       LET req == Request("users", "PUT", <<Lit("profile")>>, auth, ok)
       IN \E b \in BodiesFor(req, ProfileBodies) :
            Handle("PUT /api/users/profile", With(req, b))

(* the response is sent; the service waits for the next request *)
SendResponse ==
  /\ last # Idle
  /\ last' = Idle
  /\ UNCHANGED <<users, nextId, clk, tokens, nextTicket, redeemed,
                 nextSalt, served, inflight>>

(* time passes between requests *)
Tick ==
  /\ last = Idle
  /\ \E j \in (clk + 1)..MaxClock : clk' = j
  /\ UNCHANGED <<users, nextId, tokens, nextTicket, redeemed,
                 nextSalt, served, last, inflight>>

Next ==
  \/ PostRegister
  \/ PostLogin
  \/ GetMe
  \/ PostForgotPassword
  \/ PutResetPassword
  \/ PutUpdatePassword
  \/ GetLogout
  \/ GetUsers
  \/ GetUserById
  \/ PostUsers
  \/ PutUserById
  \/ DeleteUserById
  \/ PutUsersProfile
  \/ SendResponse
  \/ Tick

Spec == Init /\ [][Next]_vars

----------------------------------------------------------------------------
(* Properties *)

Bearer(tok) == Some([scheme |-> "Bearer", cred |-> Some(tok)])

ProtectedFirst(l) == Len(l.ran) > 0 /\ l.ran[1] = "protect"

(* tok was issued in a second that ended before the last password change  *)
(* of its subject (the change happened at passwordChangedAt + skew)        *)
IssuedBeforeChange(tok) ==
  /\ tok.id \in DOMAIN users
  /\ IsSet(users[tok.id].passwordChangedAt)
  /\ (tok.iat + 1) * MsPerSec <= Val(users[tok.id].passwordChangedAt) + SkewMs

(* C1: a protected request that presents a correctly signed, unexpired     *)
(* token issued before the last password change of its subject is rejected *)
(* with 401 and no handler runs.                                           *)
C1_StaleTokenRejected ==
  [][ ( /\ last' # Idle
        /\ ProtectedFirst(last')
        /\ IsSet(last'.tok)
        /\ JwtVerify(Val(last'.tok), Now) = "valid"
        /\ IssuedBeforeChange(Val(last'.tok)) )
      => (last'.status = 401 /\ ~HandlerRan(last')) ]_vars

IsReset(l) == l # Idle /\ l.route = "resetPassword"

(* C2: once a reset with plaintext X has succeeded, every later reset with *)
(* X is answered 400, changes no identity and returns no token.            *)
C2_ResetSingleUse ==
  [][ (IsReset(last') /\ last'.param \in redeemed)
      => (last'.status = 400 /\ users' = users /\ ~IsSet(last'.token)) ]_vars

C2_Witness ==
  /\ IsReset(last)
  /\ HandlerRan(last)
  /\ last.param \in redeemed
  /\ last.status = 400

(* the identities whose stored digest is the digest of plaintext x *)
TicketOwners(x) ==
  {j \in DOMAIN users : users[j].passwordResetToken = Some(Sha256(x))}

(* C3: a ticket expires 10 minutes after forgotPassword issued it; a reset *)
(* with the right plaintext succeeds only while now < expiry, and from     *)
(* now >= expiry on it is answered 400, the collection is unchanged and no *)
(* token is returned.                                                      *)
C3_ResetWithinWindow ==
  [][ /\ (last' # Idle /\ last'.route = "forgotPassword" /\ last'.status = 200)
         => \E j \in DOMAIN users' :
              /\ users'[j].passwordResetToken = Some(Sha256(Val(last'.ticket)))
              /\ users'[j].passwordResetExpires = Some(Now + ResetWindowMs)
      /\ \A j \in TicketOwners(last'.param) :
           IsReset(last') =>
             /\ last'.status = 200 => Now < Val(users[j].passwordResetExpires)
             /\ Now >= Val(users[j].passwordResetExpires)
                  => (last'.status = 400 /\ users' = users /\ ~IsSet(last'.token))
    ]_vars

C3_Witness ==
  /\ IsReset(last)
  /\ HandlerRan(last)
  /\ last.status = 400
  /\ \E j \in TicketOwners(last.param) : Now >= Val(users[j].passwordResetExpires)

(* C4: a rejected reset leaves the whole collection as it was, and the     *)
(* reset fields of an identity are cleared only by a successful reset.     *)
C4_RejectedResetChangesNothing ==
  [][ /\ (IsReset(last') /\ last'.status # 200) => users' = users
      /\ \A j \in DOMAIN users \cap DOMAIN users' :
           ( /\ IsSet(users[j].passwordResetToken)
             /\ ~IsSet(users'[j].passwordResetToken) )
           => (IsReset(last') /\ last'.status = 200)
    ]_vars

C4_Witness ==
  /\ IsReset(last)
  /\ HandlerRan(last)
  /\ last.status = 400
  /\ TicketOwners(last.param) = {}
  /\ \E j \in DOMAIN users : IsSet(users[j].passwordResetToken)

----------------------------------------------------------------------------
(* authorize on its own: the middleware applied to every required-role set *)
(* and every value req.user can have, an absent one included               *)
RoleNames == Roles \cup {"guest"}

ReqUsers ==
  {Undefined} \cup
  {Some([id |-> i, role |-> r, isActive |-> TRUE]) :
     i \in Ids, r \in RoleNames \cup {NoRole}}

AuthorizeProbe ==
  /\ last = Idle
  /\ \E required \in SUBSET RoleNames, reqUser \in ReqUsers :
       LET chain == <<MwAuthorize(required), MwHandler("getUsers")>>
           req == Request("users", "GET", <<>>, NoAuth, TRUE)
       IN last' = Served("authorize", chain, req,
                         RunChain(chain, 1, req, reqUser, <<>>, users, Now, Fresh))
  /\ UNCHANGED <<users, nextId, clk, tokens, nextTicket, redeemed, nextSalt,
                 served, inflight>>

NextAuthorize ==
  \/ AuthorizeProbe
  \/ SendResponse

SpecAuthorize == Init /\ [][NextAuthorize]_vars

(* C5: for every required-role set and every identity whose role is user   *)
(* or admin, authorize lets the request reach the handler exactly when the *)
(* role is in the set, and answers 403 otherwise.                          *)
C5_AuthorizeIffRoleRequired ==
  (last.op = "authorize" /\ last.role \in Roles)
  => /\ HandlerRan(last) <=> last.role \in last.required
     /\ last.role \in last.required => last.status = 200
     /\ last.role \notin last.required => last.status = 403

C5_Witness ==
  /\ last.op = "authorize"
  /\ last.role = "user"
  /\ last.required = {"admin"}
  /\ last.status = 403
  /\ ~HandlerRan(last)

(* C6: authorize answers 403 and runs no handler whenever no identity is   *)
(* attached or the attached identity has no role, whatever the required    *)
(* set, the empty one included.                                            *)
C6_AuthorizeFailsClosed ==
  (last.op = "authorize" /\ (last.user = 0 \/ last.role = NoRole))
  => (last.status = 403 /\ ~HandlerRan(last))

C6_Witness ==
  /\ last.op = "authorize"
  /\ last.user = 0
  /\ last.required = {}
  /\ last.status = 403

AdminHandlers == {"getUsers", "getUserById", "createUser", "updateUser", "deleteUser"}

(* C7: on the user-management routes the handler runs only after protect   *)
(* attached an active identity and authorize('admin') passed, in that      *)
(* order; a request of an authenticated non-admin is answered 403 and      *)
(* leaves the collection unchanged.                                        *)
C7_AdminRoutesGuarded ==
  [][ (last' # Idle /\ last'.route \in AdminHandlers)
      => /\ HandlerRan(last')
              => /\ Len(last'.ran) >= 3
                 /\ last'.ran[1] = "protect"
                 /\ last'.ran[2] = "authorize"
                 /\ last'.required = {"admin"}
                 /\ last'.user \in DOMAIN users
                 /\ users[last'.user].isActive
                 /\ users[last'.user].role = "admin"
         /\ (last'.user # 0 /\ last'.role # "admin")
              => (last'.status = 403 /\ ~HandlerRan(last') /\ users' = users)
    ]_vars

C7_Witness ==
  /\ last.route = "deleteUser"
  /\ last.user # 0
  /\ last.role = "user"
  /\ last.status = 403
  /\ last.ran = <<"protect", "authorize">>

(* C8: PUT /api/users/profile from an authenticated active identity with   *)
(* role user is dispatched to updateProfile and is not answered 403.       *)
C8_ProfileReachesUpdateProfile ==
  (last.op = "PUT /api/users/profile" /\ last.user # 0 /\ last.role = "user")
  => (last.route = "updateProfile" /\ last.status # 403)

(* tokens a client can hold: those kept and the one just returned *)
Held == tokens \cup (IF IsSet(last.token) THEN {Val(last.token)} ELSE {})

Inactive(id) == id \in DOMAIN users /\ ~users[id].isActive

(* C9: while an identity is inactive, protect answers 401 to every token   *)
(* of it, whether issued before or after the deactivation, no handler runs *)
(* for a request bearing such a token, and login returns no token for it.  *)
C9_InactiveIsLockedOut ==
  /\ [](\A tok \in Held :
          Inactive(tok.id)
          => LET r == protect(Bearer(tok), users, Now)
             IN /\ IsSet(r.err)
                /\ Val(r.err).statusCode = 401
                /\ ~IsSet(r.user))
  /\ [][ last' # Idle
         => /\ ( /\ ProtectedFirst(last')
                 /\ IsSet(last'.tok)
                 /\ Val(last'.tok).sig = "ok"
                 /\ Inactive(Val(last'.tok).id) )
               => (last'.status = 401 /\ ~HandlerRan(last') /\ last'.user = 0)
            /\ (last'.route = "login" /\ IsSet(last'.token))
               => ~Inactive(Val(last'.token).id)
       ]_vars

C9_Witness ==
  /\ ProtectedFirst(last)
  /\ IsSet(last.tok)
  /\ Inactive(Val(last.tok).id)
  /\ last.status = 401
  /\ last.message = "User account is deactivated"

(* C10: a protected request bearing a correctly signed, unexpired token    *)
(* whose subject is no longer in the collection is answered 401 (user not  *)
(* found); no identity is attached and no handler runs.                    *)
C10_DeletedIdentityRejected ==
  [][ ( /\ last' # Idle
        /\ ProtectedFirst(last')
        /\ IsSet(last'.tok)
        /\ JwtVerify(Val(last'.tok), Now) = "valid"
        /\ Val(last'.tok).id \notin DOMAIN users )
      => /\ last'.status = 401
         /\ last'.message = "User not found"
         /\ last'.user = 0
         /\ ~HandlerRan(last') ]_vars

C10_Witness ==
  /\ ProtectedFirst(last)
  /\ IsSet(last.tok)
  /\ Val(last.tok).id \notin DOMAIN users
  /\ last.status = 401
  /\ last.message = "User not found"

----------------------------------------------------------------------------
(* the header of the request has the standard form "Bearer <token>" *)
StandardBearer(l) == l.scheme = "Bearer" /\ IsSet(l.tok)

(* C11: a protected request without an Authorization header, or with one   *)
(* that is not of the form "Bearer <token>", is answered 401 (no token);   *)
(* protect is the only middleware that ran, no identity is attached and    *)
(* the handler does not run.                                               *)
C11_NoBearerNoEntry ==
  (last # Idle /\ ProtectedFirst(last) /\ ~StandardBearer(last))
  => /\ last.status = 401
     /\ last.message = "Not authorized, no token provided"
     /\ last.ran = <<"protect">>
     /\ last.user = 0

(* what the client sees of a response *)
Visible(l) == <<l.status, l.message>>

(* C12: at the HTTP boundary a token that fails signature verification is  *)
(* answered 401 "Invalid token", an expired one 401 "Token expired", and a *)
(* token that verifies gets neither answer: protect goes on to load its    *)
(* subject and, when that is an active identity, attaches it and calls     *)
(* the next middleware.                                                    *)
C12_VerifyOutcomesDistinct ==
  [][ (last' # Idle /\ ProtectedFirst(last') /\ IsSet(last'.tok))
      => LET tok == Val(last'.tok)
             verdict == JwtVerify(tok, Now)
         IN /\ verdict = "JsonWebTokenError"
                 => (Visible(last') = <<401, "Invalid token">> /\ ~HandlerRan(last'))
            /\ verdict = "TokenExpiredError"
                 => (Visible(last') = <<401, "Token expired">> /\ ~HandlerRan(last'))
            /\ verdict = "valid"
                 => /\ Visible(last') \notin
                         {<<401, "Invalid token">>, <<401, "Token expired">>}
                    /\ (tok.id \in DOMAIN users /\ users[tok.id].isActive)
                         => (last'.user = tok.id /\ Len(last'.ran) >= 2)
    ]_vars

C12_Witness ==
  /\ ProtectedFirst(last)
  /\ IsSet(last.tok)
  /\ Val(last.tok).sig = "ok"
  /\ JwtVerify(Val(last.tok), Now) = "TokenExpiredError"
  /\ Visible(last) = <<401, "Token expired">>

(* the answers protect gives, in the current state, to the headers it      *)
(* rejects                                                                 *)
ProtectFailures ==
  {errorHandler(Val(protect(h, users, Now).err)) :
     h \in {g \in HeaderForms : IsSet(protect(g, users, Now).err)}}

(* C13 as stated: all the failures of protect give the client one and the  *)
(* same status and message.                                                *)
C13_ProtectFailuresUniform == Cardinality(ProtectFailures) <= 1

(* the message of protect for the check that fails first *)
FailedCheck(tok, us, t) ==
  IF ~IsSet(tok) THEN "Not authorized, no token provided"
  ELSE IF JwtVerify(Val(tok), t) = "JsonWebTokenError" THEN "Invalid token"
  ELSE IF JwtVerify(Val(tok), t) = "TokenExpiredError" THEN "Token expired"
  ELSE IF Val(tok).id \notin DOMAIN us THEN "User not found"
  ELSE IF ~us[Val(tok).id].isActive THEN "User account is deactivated"
  ELSE ""

(* C13 amended: every failure of protect is answered with status 401, no   *)
(* identity attached and no later middleware run; the message is the one   *)
(* of the first check that failed (no token, invalid token, expired token, *)
(* user not found, deactivated), so the status is uniform and the message  *)
(* is not; and protect fails exactly when one of these checks fails.       *)
C13_ProtectFailures401 ==
  [][ (last' # Idle /\ ProtectedFirst(last'))
      => LET failed == FailedCheck(last'.tok, users, Now)
         IN /\ failed # ""
                 => /\ Visible(last') = <<401, failed>>
                    /\ last'.ran = <<"protect">>
                    /\ last'.user = 0
                    /\ users' = users
            /\ failed = "" => (Len(last'.ran) >= 2 /\ last'.user = Val(last'.tok).id)
            /\ \A v \in ProtectFailures : v.status = 401
    ]_vars

C13_Witness ==
  /\ ProtectedFirst(last)
  /\ last.ran = <<"protect">>
  /\ Visible(last) = <<401, "Invalid token">>
  /\ Cardinality(ProtectFailures) >= 2

(* C14: a register answered 201 adds exactly one identity, with role user  *)
(* whatever role the body carries, leaves the others as they were, and     *)
(* returns a token with that identity's id and role user; protect, given   *)
(* this token, attaches that identity.                                     *)
C14_RegisterCreatesUser ==
  [][ (last' # Idle /\ last'.route = "register" /\ last'.status = 201)
      => /\ nextId \notin DOMAIN users
         /\ DOMAIN users' = DOMAIN users \cup {nextId}
         /\ \A j \in DOMAIN users : users'[j] = users[j]
         /\ users'[nextId].role = "user"
         /\ IsSet(last'.token)
         /\ Val(last'.token).id = nextId
         /\ Val(last'.token).role = "user"
         /\ protect(Bearer(Val(last'.token)), users', Now)
              = [err |-> Undefined, user |-> Attached(nextId, users'[nextId])]
    ]_vars

C14_Witness ==
  /\ last.route = "register"
  /\ last.status = 201
  /\ last.body.role = Some("admin")
  /\ IsSet(last.token)
  /\ Val(last.token).id \in DOMAIN users
  /\ users[Val(last.token).id].role = "user"

----------------------------------------------------------------------------
(* Concurrent requests on one email.  Each handler is a sequence of steps  *)
(* separated by its awaits: the lookups (findById, findOne), then the      *)
(* write (create / save), which the unique index decides atomically.       *)
(* The handlers are entered with the identity protect attached.            *)
RaceOps == {"register", "createUser", "updateUser", "updateProfile"}

Creates(op) == op \in {"register", "createUser"}

(* next(err): the handler is over, errorHandler answers *)
Refuse(rec, err) ==
  LET r == errorHandler(err)
  IN [rec EXCEPT !.pc = "done", !.status = r.status, !.message = r.message,
                 !.errName = err.name]

(* res.status(...).json(...) *)
Answer(rec, status, token) ==
  [rec EXCEPT !.pc = "done", !.status = status, !.token = token]

(* the handler is entered and runs to its first await on the email *)
RaceBegin(w) ==
  /\ inflight[w].pc = "idle"
  /\ \E op \in RaceOps, em \in Emails, id \in Ids :
       LET rec == [inflight[w] EXCEPT !.op = op, !.email = em]
       IN inflight' = [inflight EXCEPT ![w] =
            IF Creates(op) THEN [rec EXCEPT !.pc = "check"]
            ELSE IF id \notin DOMAIN users
              THEN Refuse([rec EXCEPT !.id = id], ApiError(404, "User not found"))
            ELSE IF op = "updateProfile" /\ em # users[id].email
              THEN [rec EXCEPT !.pc = "check", !.id = id]
            ELSE [rec EXCEPT !.pc = "save", !.id = id]]
  /\ UNCHANGED <<users, nextId, clk, tokens, nextTicket, redeemed, nextSalt,
                 served, last>>

(* await User.findOne({ email }) and the branch on its result *)
RaceCheck(w) ==
  /\ inflight[w].pc = "check"
  /\ LET rec == inflight[w]
         text == IF rec.op = "updateProfile" THEN "Email already in use"
                 ELSE "User with this email already exists"
     IN inflight' = [inflight EXCEPT ![w] =
          IF FindByEmail(users, rec.email) # {}
          THEN Refuse(rec, ApiError(409, text))
          ELSE [rec EXCEPT !.pc = "save"]]
  /\ UNCHANGED <<users, nextId, clk, tokens, nextTicket, redeemed, nextSalt,
                 served, last>>

(* await User.create(...) / user.save(), then the response *)
RaceSave(w) ==
  /\ inflight[w].pc = "save"
  /\ LET rec == inflight[w]
         id == IF Creates(rec.op) THEN nextId ELSE rec.id
         doc == IF Creates(rec.op)
                THEN NewUser("n3", rec.email, Plain("pw1"), Undefined)
                ELSE [users[id] EXCEPT !.email = rec.email]
         s == Save(users, id, doc, Creates(rec.op), Creates(rec.op), nextSalt, Now)
         token == IF rec.op = "register"
                  THEN Some(generateAuthToken(id, s.users[id], Now)) ELSE Undefined
     IN /\ DOMAIN s.users \subseteq 1..MaxUsers
        /\ users' = s.users
        /\ nextId' = IF nextId \in DOMAIN s.users THEN nextId + 1 ELSE nextId
        /\ nextSalt' = IF Creates(rec.op) /\ ~IsSet(s.err)
                        THEN nextSalt + 1 ELSE nextSalt
        /\ inflight' = [inflight EXCEPT ![w] =
             IF IsSet(s.err) THEN Refuse(rec, Val(s.err))
             ELSE Answer(rec, IF Creates(rec.op) THEN 201 ELSE 200, token)]
  /\ UNCHANGED <<clk, tokens, nextTicket, redeemed, served, last>>

NextRace ==
  \/ \E w \in Workers : RaceBegin(w)
  \/ \E w \in Workers : RaceCheck(w)
  \/ \E w \in Workers : RaceSave(w)

SpecRace == Init /\ [][NextRace]_vars

Holders(us, em) == {j \in DOMAIN us : us[j].email = em}

(* C15: whatever the interleaving of register, createUser, updateUser and  *)
(* updateProfile, no two identities hold the same email; a request that    *)
(* finishes while another identity holds its email is answered 409,        *)
(* returns no token and writes nothing, whether the controller's lookup or *)
(* only the unique index found the duplicate; a request answered 2xx       *)
(* leaves its email with exactly one identity.                             *)
C15_EmailUniqueUnderRaces ==
  /\ [](\A em \in Emails : Cardinality(Holders(users, em)) <= 1)
  /\ [][ \A w \in Workers :
           (inflight[w].pc # "done" /\ inflight'[w].pc = "done")
           => LET r == inflight'[w]
              IN /\ r.status \in {200, 201, 404, 409}
                 /\ r.status \in {200, 201}
                      => Cardinality(Holders(users', r.email)) = 1
                 /\ (r.status # 404 /\ Holders(users, r.email) \ {r.id} # {})
                      => /\ r.status = 409
                         /\ ~IsSet(r.token)
                         /\ users' = users
       ]_vars

C15_Witness ==
  \E w \in Workers, v \in Workers :
    /\ inflight[w].pc = "done" /\ inflight[v].pc = "done"
    /\ inflight[w].op = "register" /\ inflight[w].status = 409
    /\ inflight[w].errName = "MongoServerError"
    /\ inflight[v].status = 201
    /\ inflight[v].email = inflight[w].email

----------------------------------------------------------------------------
(* the body names an identity, carries its password, and it is active *)
MayLogin(b, us) ==
  /\ IsSet(b.email)
  /\ IsSet(b.password)
  /\ \E j \in FindByEmail(us, Val(b.email)) :
       matchPassword(us[j], Val(b.password)) /\ us[j].isActive

LoginServed(l) == l # Idle /\ l.route = "login" /\ HandlerRan(l)

(* C16 as stated: login returns a token only when the email resolves, the  *)
(* password matches and the identity is active; in every other case it     *)
(* answers 401, returns no token and leaves the collection unchanged.      *)
C16_LoginElse401 ==
  [][ LoginServed(last')
      => /\ IsSet(last'.token) => MayLogin(last'.body, users)
         /\ ~MayLogin(last'.body, users)
              => (last'.status = 401 /\ ~IsSet(last'.token) /\ users' = users)
    ]_vars

(* C16 amended: as above, except that a body without email or without      *)
(* password is answered 400 instead of 401; a token that is returned       *)
(* carries the id of the identity the email resolves to.                   *)
C16_LoginFailsClosed ==
  [][ LoginServed(last')
      => LET b == last'.body
             missing == ~IsSet(b.email) \/ ~IsSet(b.password)
         IN /\ IsSet(last'.token)
                 => /\ MayLogin(b, users)
                    /\ Val(last'.token).id \in FindByEmail(users, Val(b.email))
            /\ ~MayLogin(b, users)
                 => /\ last'.status = (IF missing THEN 400 ELSE 401)
                    /\ ~IsSet(last'.token)
                    /\ users' = users
            /\ MayLogin(b, users) => (last'.status = 200 /\ IsSet(last'.token))
    ]_vars

C16_Witness ==
  /\ LoginServed(last)
  /\ last.status = 401
  /\ last.message = "Your account has been deactivated"
  /\ ~IsSet(last.token)
  /\ \E j \in FindByEmail(users, Val(last.body.email)) :
       ~users[j].isActive /\ ~IsSet(users[j].lastLogin)

DeleteServed(l) == l # Idle /\ l.route = "deleteUser" /\ HandlerRan(l)

(* C17: deleteUser with the acting identity's own id is answered 400 and   *)
(* the collection, the acting identity's record included, is unchanged; a  *)
(* record leaves the collection only through a deleteUser whose target is  *)
(* another identity, and then only the target leaves.                      *)
C17_NoSelfDelete ==
  [][ /\ (DeleteServed(last') /\ last'.param = last'.user)
         => /\ last'.status = 400
            /\ users' = users
            /\ last'.user \in DOMAIN users'
      /\ DOMAIN users \ DOMAIN users' # {}
         => /\ DeleteServed(last')
            /\ last'.status = 200
            /\ last'.param # last'.user
            /\ DOMAIN users' = DOMAIN users \ {last'.param}
            /\ \A j \in DOMAIN users' : users'[j] = users[j]
    ]_vars

C17_Witness ==
  /\ DeleteServed(last)
  /\ last.param = last.user
  /\ last.role = "admin"
  /\ last.status = 400
  /\ last.message = "You cannot delete your own account"
  /\ last.user \in DOMAIN users

----------------------------------------------------------------------------
(* The staleness test on its own: a password of the seeded user is changed *)
(* at one instant, a token of that user is signed at another, both on a    *)
(* grid of quarter seconds, and passwordChangedAfter is asked about the    *)
(* token's iat.                                                            *)
QuarterInstants == {StartMs + k * (MsPerSec \div 4) : k \in 0..MaxQuarters}

StaleProbe ==
  /\ last = Idle
  /\ \E changeMs \in QuarterInstants, issuedMs \in QuarterInstants :
       LET id == 2
           doc == [users[id] EXCEPT !.password = Plain("pw1")]
           saved == Save(users, id, doc, TRUE, FALSE, nextSalt, changeMs).users[id]
           tok == generateAuthToken(id, users[id], issuedMs)
       IN last' = [op |-> "passwordChangedAfter", changeMs |-> changeMs,
                   issuedMs |-> issuedMs, iat |-> tok.iat,
                   changedAt |-> saved.passwordChangedAt,
                   stale |-> passwordChangedAfter(saved, tok.iat)]
  /\ UNCHANGED <<users, nextId, clk, tokens, nextTicket, redeemed, nextSalt,
                 served, inflight>>

NextStale ==
  \/ StaleProbe
  \/ SendResponse

SpecStale == Init /\ [][NextStale]_vars

Probed(l) == l.op = "passwordChangedAfter"

(* C18 as stated: every token issued at or before the instant of the       *)
(* password change is classified stale, one minted in the second of the    *)
(* change included.                                                        *)
C18_SameSecondTokenStale ==
  (Probed(last) /\ last.issuedMs <= last.changeMs) => last.stale

(* C18 amended: the stored passwordChangedAt is the instant of the change  *)
(* minus one second, and a token is classified stale exactly when its iat  *)
(* is at least two seconds below the second of the change; a token minted  *)
(* in the second of the change, or in the second before it, is not stale.  *)
C18_StaleTwoSecondsBefore ==
  Probed(last)
  => /\ last.changedAt = Some(last.changeMs - SkewMs)
     /\ last.stale <=> last.iat + 2 <= last.changeMs \div MsPerSec
     /\ last.iat + 1 >= last.changeMs \div MsPerSec => ~last.stale

C18_Witness ==
  /\ Probed(last)
  /\ last.issuedMs < last.changeMs
  /\ last.iat = last.changeMs \div MsPerSec
  /\ ~last.stale

----------------------------------------------------------------------------
PasswordChangers == {"updatePassword", "resetPassword"}

(* C19: a request changes the password of an existing identity only        *)
(* through updatePassword or resetPassword, and that save sets             *)
(* passwordChangedAt (to now minus the skew); an identity is created with  *)
(* passwordChangedAt unset; every other save (login, forgotPassword,       *)
(* updateUser, updateProfile) leaves password and passwordChangedAt as     *)
(* they were.                                                              *)
C19_ChangedAtFollowsPassword ==
  [][ /\ \A j \in DOMAIN users' \ DOMAIN users :
           ~IsSet(users'[j].passwordChangedAt)
      /\ \A j \in DOMAIN users' \cap DOMAIN users :
           /\ users'[j].password # users[j].password
                => /\ last'.route \in PasswordChangers
                   /\ last'.status = 200
                   /\ users'[j].passwordChangedAt = Some(Now - SkewMs)
           /\ users'[j].password = users[j].password
                => users'[j].passwordChangedAt = users[j].passwordChangedAt
      /\ (last' # Idle /\ last'.route \in PasswordChangers /\ last'.status = 200)
           => \E j \in DOMAIN users :
                /\ j = Val(last'.token).id
                /\ users'[j].password # users[j].password
                /\ users'[j].passwordChangedAt = Some(Now - SkewMs)
    ]_vars

C19_Witness ==
  /\ last.route = "updatePassword"
  /\ last.status = 200
  /\ users[last.user].passwordChangedAt = Some(Now - SkewMs)
  /\ \E j \in DOMAIN users :
       j >= 3 /\ ~IsSet(users[j].passwordChangedAt) /\ IsSet(users[j].lastLogin)

(* the stored credential is one bcrypt application to a plaintext *)
HashedOnce(v) == v.layers = 1 /\ v.cost = BcryptCost /\ v.plain \in Passwords

(* C20: in every reachable state the stored password of every identity is  *)
(* a plaintext hashed exactly once, which matchPassword accepts for that    *)
(* plaintext; and a request that is not a successful updatePassword or     *)
(* resetPassword leaves every stored password as it was (no re-hash).      *)
C20_CredentialHashedOnce ==
  /\ [](\A j \in DOMAIN users :
          HashedOnce(users[j].password)
          /\ matchPassword(users[j], users[j].password.plain))
  /\ [][ \A j \in DOMAIN users' \cap DOMAIN users :
           (last' = Idle \/ last'.route \notin PasswordChangers \/ last'.status # 200)
           => users'[j].password = users[j].password
       ]_vars

C20_Witness ==
  /\ last.route = "login"
  /\ last.status = 200
  /\ IsSet(users[Val(last.token).id].lastLogin)
  /\ IsSet(users[Val(last.token).id].passwordChangedAt)
  /\ HashedOnce(users[Val(last.token).id].password)

----------------------------------------------------------------------------
(* Concurrent forgotPassword and resetPassword requests.  Each handler is  *)
(* its lookup (await User.findOne), then its save, which writes the paths  *)
(* the handler modified to the stored document.  The collection starts     *)
(* with one ticket issued to the regular user.                             *)
InitReset ==
  /\ inflight = NoInflight
  /\ users = Save(SeedUsers, 2, generatePasswordResetToken(SeedUsers[2], 1, StartMs),
                  FALSE, FALSE, 0, StartMs).users
  /\ nextId = 3
  /\ clk = 0
  /\ tokens = {generateAuthToken(j, SeedUsers[j], StartMs) : j \in DOMAIN SeedUsers}
  /\ nextTicket = 2
  /\ redeemed = {}
  /\ nextSalt = 3
  /\ served = 0
  /\ last = Idle

(* the handler is entered and its findOne has answered *)
ResetBegin(w) ==
  /\ inflight[w].pc = "idle"
  /\ \/ \E em \in Emails :
          LET rec == [inflight[w] EXCEPT !.op = "forgotPassword", !.email = em]
              found == FindByEmail(users, em)
          IN inflight' = [inflight EXCEPT ![w] =
               IF found = {}
               THEN Refuse(rec, ApiError(404, "No user found with that email"))
               ELSE [rec EXCEPT !.pc = "save", !.id = CHOOSE j \in found : TRUE]]
     \/ \E x \in Tickets :
          LET rec == [inflight[w] EXCEPT !.op = "resetPassword", !.ticket = x]
              found == FindByResetToken(users, Sha256(x), Now)
          IN inflight' = [inflight EXCEPT ![w] =
               IF found = {}
               THEN Refuse(rec, ApiError(400, "Invalid or expired token"))
               ELSE [rec EXCEPT !.pc = "save", !.id = CHOOSE j \in found : TRUE]]
  /\ UNCHANGED <<users, nextId, clk, tokens, nextTicket, redeemed, nextSalt,
                 served, last>>

(* the fields are set on the loaded document, await user.save(), response *)
ResetSave(w) ==
  /\ inflight[w].pc = "save"
  /\ LET rec == inflight[w]
         id == rec.id
     IN IF rec.op = "forgotPassword"
        THEN /\ nextTicket <= MaxTickets
             /\ users' = Save(users, id,
                              generatePasswordResetToken(users[id], nextTicket, Now),
                              FALSE, FALSE, nextSalt, Now).users
             /\ nextTicket' = nextTicket + 1
             /\ inflight' = [inflight EXCEPT ![w] =
                  Answer([rec EXCEPT !.ticket = nextTicket], 200, Undefined)]
             /\ UNCHANGED <<nextSalt, redeemed>>
        ELSE \E pw \in Passwords :
               LET doc == [users[id] EXCEPT !.password = Plain(pw),
                                            !.passwordResetToken = Undefined,
                                            !.passwordResetExpires = Undefined]
                   s == Save(users, id, doc, TRUE, FALSE, nextSalt, Now)
               IN /\ users' = s.users
                  /\ nextSalt' = nextSalt + 1
                  /\ redeemed' = redeemed \cup {rec.ticket}
                  /\ inflight' = [inflight EXCEPT ![w] =
                       Answer(rec, 200, Some(generateAuthToken(id, s.users[id], Now)))]
                  /\ UNCHANGED nextTicket
  /\ UNCHANGED <<nextId, clk, tokens, served, last>>

NextResetRace ==
  \/ \E w \in Workers : ResetBegin(w)
  \/ \E w \in Workers : ResetSave(w)
  \/ Tick

SpecResetRace == InitReset /\ [][NextResetRace]_vars

(* C21: in every reachable state every identity has its reset digest and   *)
(* its reset expiry both set or both absent, whatever the interleaving of  *)
(* forgotPassword and resetPassword requests.                              *)
C21_ResetFieldsPaired ==
  \A j \in DOMAIN users :
    IsSet(users[j].passwordResetToken) <=> IsSet(users[j].passwordResetExpires)

C21_Witness ==
  \E w \in Workers, v \in Workers :
    /\ inflight[w].op = "resetPassword" /\ inflight[w].status = 200
    /\ inflight[v].op = "forgotPassword" /\ inflight[v].status = 200
    /\ inflight[v].id = inflight[w].id
    /\ IsSet(users[inflight[w].id].passwordResetToken)
    /\ IsSet(users[inflight[w].id].passwordResetExpires)

----------------------------------------------------------------------------
(* config/config.js.  env gives each environment variable as Undefined or  *)
(* Some(string); "x || d" takes d when x is undefined or empty.            *)
DefaultSecret == "development_secret_key_change_in_production"

OrElse(x, d) == IF IsSet(x) /\ Val(x) # "" THEN Val(x) ELSE d

Config(env) ==
  [nodeEnv |-> OrElse(env.NODE_ENV, "development"),
   mongoUri |-> OrElse(env.MONGO_URI, "mongodb://localhost:27017/secure-user-auth"),
   jwt |-> [secret |-> OrElse(env.JWT_SECRET, DefaultSecret),
            expiresIn |-> OrElse(env.JWT_EXPIRE, "24h")]]

(* validateConfig: TRUE when it throws *)
validateConfig(env) ==
  OrElse(env.JWT_SECRET, "") = "" /\ Config(env).nodeEnv = "production"

(* the module is loaded under some environment *)
ConfigProbe ==
  /\ last = Idle
  /\ \E nodeEnv \in Opt({"", "production", "development", "test"}),
        secret \in Opt({"", DefaultSecret, "s3cret"}),
        expire \in Opt({"", "1h", "24h"}),
        uri \in Opt({"mongodb://db/auth"}) :
       LET env == [NODE_ENV |-> nodeEnv, JWT_SECRET |-> secret,
                   JWT_EXPIRE |-> expire, MONGO_URI |-> uri]
       IN last' = [op |-> "validateConfig", env |-> env, config |-> Config(env),
                   threw |-> validateConfig(env)]
  /\ UNCHANGED <<users, nextId, clk, tokens, nextTicket, redeemed, nextSalt,
                 served, inflight>>

SpecConfig == Init /\ [][ConfigProbe \/ SendResponse]_vars

(* C22: under NODE_ENV = production validateConfig throws whenever         *)
(* JWT_SECRET is missing, empty or equal to the default secret, so the     *)
(* configuration of a production start never carries the default secret.   *)
C22_ProductionRefusesDefaultSecret ==
  (last.op = "validateConfig" /\ last.config.nodeEnv = "production")
  => /\ OrElse(last.env.JWT_SECRET, DefaultSecret) = DefaultSecret => last.threw
     /\ ~last.threw => last.config.jwt.secret # DefaultSecret

----------------------------------------------------------------------------
(* C23: updatePassword whose currentPassword does not match the stored     *)
(* credential of the caller is answered 401 without a token and leaves the *)
(* collection (credential and passwordChangedAt included) and the tokens   *)
(* in circulation as they were: every token passes or fails protect as     *)
(* before, and the caller's stored credential matches the same passwords.  *)
C23_WrongCurrentChangesNothing ==
  [][ ( /\ last' # Idle
        /\ last'.route = "updatePassword"
        /\ HandlerRan(last')
        /\ ~matchPassword(users[last'.user], Val(last'.body.currentPassword)) )
      => /\ last'.status = 401
         /\ ~IsSet(last'.token)
         /\ tokens' = tokens
         /\ users' = users
         /\ users'[last'.user].password = users[last'.user].password
         /\ users'[last'.user].passwordChangedAt = users[last'.user].passwordChangedAt
         /\ \A tok \in tokens : FailedCheck(Some(tok), users', Now) = FailedCheck(Some(tok), users, Now)
         /\ \A pw \in Passwords :
              matchPassword(users'[last'.user], pw) = matchPassword(users[last'.user], pw)
    ]_vars

C23_Witness ==
  /\ last.route = "updatePassword"
  /\ HandlerRan(last)
  /\ last.status = 401
  /\ last.message = "Current password is incorrect"
  /\ ~matchPassword(users[last.user], Val(last.body.currentPassword))
  /\ ~IsSet(users[last.user].passwordChangedAt)

----------------------------------------------------------------------------
----------------------------------------------------------------------------
(* C25: no log event of a request holds a password of its body, and no log *)
(* event of a PUT /api/auth/resetpassword/:resettoken request, accepted or *)
(* rejected, holds the presented ticket plaintext.  (An event has no field *)
(* that holds a bearer token.)                                             *)
C25_NoSecretInLog ==
  last # Idle
  => \A e \in last.log :
       LET secrets == {Val(p) : p \in {q \in {last.body.password, last.body.currentPassword,
                                              last.body.newPassword} : IsSet(q)}}
       IN /\ e.text \notin secrets
          /\ e.subject \notin secrets
          /\ \A k \in 1..Len(e.url) : e.url[k].lit \notin secrets
          /\ last.route = "resetPassword"
               => \A k \in 1..Len(e.url) : e.url[k] # Num(last.param)

----------------------------------------------------------------------------
(* C26: in every state a reset with a redeemed ticket and a reset with a   *)
(* plaintext that was never issued get the same answer, 400 with the same  *)
(* message and no token, and leave the collection as it is; and a reset    *)
(* request of either kind that is served is answered so.                   *)
C26_RedeemedLooksUnissued ==
  /\ [](\A r \in redeemed, x \in {y \in Tickets : y >= nextTicket},
           b \in NewPasswordBodies :
          LET a == Outcome(With(Request("auth", "PUT", <<Lit("resetpassword"), Num(r)>>,
                                        NoAuth, TRUE), b))
              c == Outcome(With(Request("auth", "PUT", <<Lit("resetpassword"), Num(x)>>,
                                        NoAuth, TRUE), b))
          IN /\ Visible(a) = Visible(c)
             /\ a.status = 400
             /\ a.token = c.token /\ ~IsSet(a.token)
             /\ a.users = users /\ c.users = users)
  /\ [][ ( /\ IsReset(last')
           /\ HandlerRan(last')
           /\ (last'.param \in redeemed \/ last'.param >= nextTicket) )
         => /\ Visible(last') = <<400, "Invalid or expired token">>
            /\ ~IsSet(last'.token)
            /\ users' = users
       ]_vars

C26_Witness ==
  /\ IsReset(last)
  /\ HandlerRan(last)
  /\ last.param \in redeemed
  /\ Visible(last) = <<400, "Invalid or expired token">>
  /\ nextTicket \in Tickets

----------------------------------------------------------------------------
(* Requests that set a password while bcrypt fails.                        *)
HashingFails ==
  /\ Ready
  /\ \E auth \in AuthHeaders, x \in Tickets, k \in 1..4 :
       LET base == CASE k = 1 -> Request("auth", "POST", <<Lit("register")>>, NoAuth, TRUE)
                     [] k = 2 -> Request("users", "POST", <<>>, auth, TRUE)
                     [] k = 3 -> Request("auth", "PUT", <<Lit("updatepassword")>>,
                                         auth, TRUE)
                     [] k = 4 -> Request("auth", "PUT",
                                         <<Lit("resetpassword"), Num(x)>>, NoAuth, TRUE)
           bodies == CASE k \in {1, 2} -> SignupBodies({Undefined})
                       [] k = 3 -> ChangePasswordBodies
                       [] k = 4 -> NewPasswordBodies
           req == [base EXCEPT !.salt = NoSalt]
       IN \E b \in BodiesFor(req, bodies) : Handle("hashing fails", With(req, b))

SpecHashFail ==
  Init /\ [][PostForgotPassword \/ HashingFails \/ SendResponse \/ Tick]_vars

(* C27: a request during which credential hashing fails is answered with   *)
(* an error and no token, and leaves the collection as it was: no identity *)
(* is added, and credential, passwordChangedAt and reset fields of every   *)
(* identity stay as stored; every stored credential remains a bcrypt hash; *)
(* and when the request reaches the save (register or createUser with an   *)
(* unused email, updatePassword with the right current password, reset     *)
(* with a valid ticket) the answer is the 500 of the hashing error.        *)
C27_HashFailurePropagates ==
  /\ [](\A j \in DOMAIN users : HashedOnce(users[j].password))
  /\ [][ (last' # Idle /\ last'.op = "hashing fails")
         => LET l == last'
                reaches ==
                  /\ HandlerRan(l)
                  /\ CASE l.route \in {"register", "createUser"} ->
                             FindByEmail(users, Val(l.body.email)) = {}
                        [] l.route = "updatePassword" ->
                             matchPassword(users[l.user], Val(l.body.currentPassword))
                        [] l.route = "resetPassword" ->
                             FindByResetToken(users, Sha256(l.param), Now) # {}
                        [] OTHER -> FALSE
            IN /\ l.status >= 400
               /\ ~IsSet(l.token)
               /\ users' = users
               /\ tokens' = tokens
               /\ reaches <=> Visible(l) = <<500, BcryptError.message>>
       ]_vars

C27_Witness ==
  /\ last # Idle
  /\ last.op = "hashing fails"
  /\ last.route = "resetPassword"
  /\ last.status = 500
  /\ \E j \in TicketOwners(last.param) :
       /\ IsSet(users[j].passwordResetExpires)
       /\ users[j].password = SeedUsers[j].password

----------------------------------------------------------------------------
(* C28: a register request whose body carries a role, and an own-profile   *)
(* update by a caller who is not an admin, are answered with an error and  *)
(* leave the collection as it was; none succeeds with the role dropped.    *)
C28_RoleTamperingRejected ==
  [][ ( /\ last' # Idle
        /\ \/ last'.route = "register" /\ IsSet(last'.body.role)
           \/ last'.op = "PUT /api/users/profile" /\ last'.role # "admin" )
      => (last'.status >= 400 /\ users' = users)
    ]_vars

----------------------------------------------------------------------------
(* the identities that hold the ticket of plaintext x past its expiry *)
Lapsed(x) ==
  {j \in TicketOwners(x) : /\ IsSet(users[j].passwordResetExpires)
                           /\ Val(users[j].passwordResetExpires) <= Now}

(* C29 as stated: a reset rejected because the expiry of the presented     *)
(* ticket has passed clears the stored digest and expiry of the identity.  *)
C29_ExpiredRejectionClears ==
  [][ (IsReset(last') /\ HandlerRan(last') /\ last'.status = 400)
      => \A j \in Lapsed(last'.param) :
           /\ ~IsSet(users'[j].passwordResetToken)
           /\ ~IsSet(users'[j].passwordResetExpires)
    ]_vars

(* C29 amended: a reset with a ticket whose expiry has passed is rejected  *)
(* with 400, and that rejection leaves the stored digest and expiry of the *)
(* identity as they were, still set.                                       *)
C29_ExpiredRejectionKeepsFields ==
  [][ (IsReset(last') /\ HandlerRan(last') /\ Lapsed(last'.param) # {})
      => /\ Visible(last') = <<400, "Invalid or expired token">>
         /\ \A j \in Lapsed(last'.param) :
              /\ users'[j].passwordResetToken = Some(Sha256(last'.param))
              /\ users'[j].passwordResetExpires = users[j].passwordResetExpires
              /\ IsSet(users'[j].passwordResetExpires)
    ]_vars

C29_Witness ==
  /\ IsReset(last)
  /\ HandlerRan(last)
  /\ last.status = 400
  /\ Lapsed(last.param) # {}
  /\ \A j \in Lapsed(last.param) :
       users[j].passwordResetToken = Some(Sha256(last.param))

----------------------------------------------------------------------------
(* C30: of the resetPassword requests that present the same ticket         *)
(* plaintext, concurrent ones included, at most one is answered 200 with a *)
(* token.                                                                  *)
C30_OneRedeemPerTicket ==
  \A w \in Workers, v \in Workers :
    ( /\ w # v
      /\ inflight[w].op = "resetPassword" /\ inflight[w].status = 200
      /\ inflight[v].op = "resetPassword" /\ inflight[v].status = 200 )
    => inflight[w].ticket # inflight[v].ticket

----------------------------------------------------------------------------
(* C31: a token signed at the instant of the save that changed the         *)
(* password, or at any later instant, is not classified stale by           *)
(* passwordChangedAfter against the passwordChangedAt that save wrote,     *)
(* wherever in their seconds the two instants fall.                        *)
C31_OwnTokenNotStale ==
  (Probed(last) /\ last.issuedMs >= last.changeMs)
  => /\ last.iat > Val(last.changedAt) \div MsPerSec
     /\ ~last.stale

(* the save falls late in a second and the token is signed in the same     *)
(* second, a quarter later                                                 *)
C31_Witness ==
  /\ Probed(last)
  /\ last.issuedMs = last.changeMs + (MsPerSec \div 4)
  /\ last.changeMs % MsPerSec = MsPerSec \div 2
  /\ last.iat = last.changeMs \div MsPerSec
  /\ ~last.stale

----------------------------------------------------------------------------
(* C32: on a route behind authorize('admin'), a request whose token        *)
(* verifies and names an active identity is decided on the role stored on  *)
(* that identity, whatever role the token carries: it is answered 403      *)
(* without reaching the handler when the stored role is not admin (an      *)
(* admin demoted by updateUser presenting a token that still says admin    *)
(* included), and it passes authorize when the stored role is admin.       *)
C32_AuthorizeUsesStoredRole ==
  [][ ( /\ last' # Idle
        /\ ProtectedFirst(last')
        /\ Len(last'.ran) >= 2
        /\ last'.ran[2] = "authorize" )
      => LET tok == Val(last'.tok)
         IN /\ last'.required = {"admin"}
            /\ last'.role = users[tok.id].role
            /\ IF users[tok.id].role = "admin"
               THEN Len(last'.ran) > 2
               ELSE /\ last'.status = 403
                    /\ last'.ran = <<"protect", "authorize">>
                    /\ users' = users
    ]_vars

(* a demoted admin presents the token issued while it was admin *)
C32_Witness ==
  /\ last # Idle
  /\ last.ran = <<"protect", "authorize">>
  /\ last.status = 403
  /\ Val(last.tok).role = "admin"
  /\ users[Val(last.tok).id].role = "user"

----------------------------------------------------------------------------
(* C33: a step that changes the stored role of an identity, or adds an     *)
(* identity whose role is not user, is a createUser or updateUser that     *)
(* answered with success after protect and authorize('admin') had passed   *)
(* for a caller whose stored role was admin; so no request of a caller     *)
(* whose stored role is user, and no request without a caller, changes a   *)
(* role or creates an admin.                                               *)
C33_RolesChangeOnlyByAdmin ==
  [][ LET changed == \/ \E j \in DOMAIN users \cap DOMAIN users' :
                          users'[j].role # users[j].role
                     \/ \E j \in DOMAIN users' \ DOMAIN users :
                          users'[j].role # "user"
      IN /\ changed
              => /\ last'.route \in {"createUser", "updateUser"}
                 /\ last'.status \in {200, 201}
                 /\ SubSeq(last'.ran, 1, 2) = <<"protect", "authorize">>
                 /\ last'.required = {"admin"}
                 /\ users[last'.user].role = "admin"
         /\ (last' # Idle /\ (last'.user = 0 \/ users[last'.user].role = "user"))
              => ~changed
    ]_vars

(* a caller whose stored role is user has tried updateUser *)
C33_Witness ==
  /\ last # Idle
  /\ last.route = "updateUser"
  /\ last.status = 403
  /\ last.user \in DOMAIN users
  /\ users[last.user].role = "user"
  /\ \E j \in DOMAIN users : j >= 3 /\ users[j].role = "user"

----------------------------------------------------------------------------
(* C34: in every state at most one ticket plaintext is redeemable for an   *)
(* identity; a forgotPassword answered 200 leaves the identity redeemable  *)
(* with the plaintext it returned and with no other, so a plaintext issued *)
(* to the identity before is no longer redeemable; and a reset with an     *)
(* issued plaintext that is not redeemed and that no identity holds any    *)
(* more is answered 400 and changes nothing.                               *)
C34_NewTicketRevokesOld ==
  /\ [](\A j \in DOMAIN users :
          Cardinality({x \in Tickets : j \in FindByResetToken(users, Sha256(x), Now)}) <= 1)
  /\ [][ (last' # Idle /\ last'.route = "forgotPassword" /\ last'.status = 200)
         => \A j \in FindByEmail(users', Val(last'.body.email)) :
              {x \in Tickets : j \in FindByResetToken(users', Sha256(x), Now)}
                = {Val(last'.ticket)}
       ]_vars
  /\ [][ ( /\ IsReset(last')
           /\ HandlerRan(last')
           /\ last'.param < nextTicket
           /\ last'.param \notin redeemed
           /\ TicketOwners(last'.param) = {} )
         => (last'.status = 400 /\ ~IsSet(last'.token) /\ users' = users)
       ]_vars

(* the first ticket is presented after the second was issued to the same   *)
(* identity, within the window of both                                     *)
C34_Witness ==
  /\ IsReset(last)
  /\ HandlerRan(last)
  /\ last.status = 400
  /\ last.param = 1
  /\ redeemed = {}
  /\ TicketOwners(1) = {}
  /\ clk = 0
  /\ \E j \in TicketOwners(2) : Val(users[j].passwordResetExpires) > Now

----------------------------------------------------------------------------
(* C35: an updatePassword answered 200 changes, of the whole collection,   *)
(* only password and passwordChangedAt of the caller: reset digest, reset  *)
(* expiry, role, active flag, email and every other identity stay as they  *)
(* were, and every ticket plaintext finds the same identity after the      *)
(* change as before it.                                                    *)
C35_UpdatePasswordFrame ==
  [][ (last' # Idle /\ last'.route = "updatePassword" /\ last'.status = 200)
      => LET id == last'.user
         IN /\ users' = [users EXCEPT
                           ![id] = [@ EXCEPT
                                      !.password = users'[id].password,
                                      !.passwordChangedAt = users'[id].passwordChangedAt]]
            /\ users'[id].password # users[id].password
            /\ users'[id].passwordResetToken = users[id].passwordResetToken
            /\ users'[id].passwordResetExpires = users[id].passwordResetExpires
            /\ users'[id].role = users[id].role
            /\ users'[id].isActive = users[id].isActive
            /\ users'[id].email = users[id].email
            /\ \A x \in Tickets :
                 FindByResetToken(users', Sha256(x), Now)
                   = FindByResetToken(users, Sha256(x), Now)
    ]_vars

(* the caller holds an unexpired ticket across the password change *)
C35_Witness ==
  /\ last # Idle
  /\ last.route = "updatePassword"
  /\ last.status = 200
  /\ IsSet(users[last.user].passwordChangedAt)
  /\ \E x \in Tickets : last.user \in FindByResetToken(users, Sha256(x), Now)

----------------------------------------------------------------------------
(* A login concurrent with password changes.  Each handler loads its       *)
(* document and compares the password on what it loaded; other requests    *)
(* may be served before it saves.  save() of a loaded document writes the  *)
(* paths the handler or a pre-save hook modified, and no other path.       *)
IdleLoader == IdleWorker @@ [doc |-> Undefined, pw |-> "", seq |-> 0]

(* variant: save() writes the whole loaded document *)
SavePathsWholeDocument(us, id, doc, paths, pwModified, salt, t) ==
  [us EXCEPT ![id] = PreSaveChangedAt(PreSaveHash(doc, pwModified, salt),
                                      pwModified, FALSE, t)]

(* document.save() on a document loaded earlier: $set of the modified paths *)
SavePaths(us, id, doc, paths, pwModified, salt, t) ==
  LET hooked == PreSaveChangedAt(PreSaveHash(doc, pwModified, salt),
                                 pwModified, FALSE, t)
      written == paths \cup (IF pwModified THEN {"password", "passwordChangedAt"}
                             ELSE {})
  IN [us EXCEPT ![id] = [f \in DOMAIN us[id] |->
                           IF f \in written THEN hooked[f] ELSE us[id][f]]]

(* the regular user holds an unexpired reset ticket *)
InitLoginRace ==
  /\ inflight = [w \in Workers |-> IdleLoader]
  /\ users = Save(SeedUsers, 2, generatePasswordResetToken(SeedUsers[2], 1, StartMs),
                  FALSE, FALSE, 0, StartMs).users
  /\ nextId = 3
  /\ clk = 0
  /\ tokens = {generateAuthToken(j, SeedUsers[j], StartMs) : j \in DOMAIN SeedUsers}
  /\ nextTicket = 2
  /\ redeemed = {}
  /\ nextSalt = 3
  /\ served = 0
  /\ last = Idle

(* login up to its save: findOne, matchPassword, isActive *)
LoginBegin(w) ==
  /\ inflight[w].pc = "idle"
  /\ \E em \in Emails, pw \in Passwords :
       LET rec == [inflight[w] EXCEPT !.op = "login", !.email = em, !.pw = pw]
           found == FindByEmail(users, em)
           id == CHOOSE j \in found : TRUE
       IN inflight' = [inflight EXCEPT ![w] =
            IF found = {} \/ ~matchPassword(users[id], pw)
              THEN Refuse(rec, ApiError(401, "Invalid credentials"))
            ELSE IF ~users[id].isActive
              THEN Refuse(rec, ApiError(401, "Your account has been deactivated"))
            ELSE [rec EXCEPT !.pc = "save", !.id = id, !.doc = Some(users[id])]]
  /\ UNCHANGED <<users, nextId, clk, tokens, nextTicket, redeemed, nextSalt,
                 served, last>>

(* updatePassword (caller id, attached by protect) and resetPassword up to *)
(* their save: the load and the check on what was loaded                   *)
ChangeBegin(w) ==
  /\ inflight[w].pc = "idle"
  /\ \E new \in Passwords :
       \/ \E id \in DOMAIN users, cur \in Passwords :
            LET rec == [inflight[w] EXCEPT !.op = "updatePassword", !.id = id,
                                           !.pw = new]
            IN inflight' = [inflight EXCEPT ![w] =
                 IF ~matchPassword(users[id], cur)
                   THEN Refuse(rec, ApiError(401, "Current password is incorrect"))
                 ELSE [rec EXCEPT !.pc = "save", !.doc = Some(users[id])]]
       \/ \E x \in Tickets :
            LET rec == [inflight[w] EXCEPT !.op = "resetPassword", !.ticket = x,
                                           !.pw = new]
                found == FindByResetToken(users, Sha256(x), Now)
                id == CHOOSE j \in found : TRUE
            IN inflight' = [inflight EXCEPT ![w] =
                 IF found = {}
                   THEN Refuse(rec, ApiError(400, "Invalid or expired token"))
                 ELSE [rec EXCEPT !.pc = "save", !.id = id, !.doc = Some(users[id])]]
  /\ UNCHANGED <<users, nextId, clk, tokens, nextTicket, redeemed, nextSalt,
                 served, last>>

(* the assignments to the loaded document, await user.save(), the response *)
LoadedSave(w) ==
  /\ inflight[w].pc = "save"
  /\ LET rec == inflight[w]
         id == rec.id
         loaded == Val(rec.doc)
         doc == CASE rec.op = "login" -> [loaded EXCEPT !.lastLogin = Some(Now)]
                  [] rec.op = "updatePassword" ->
                       [loaded EXCEPT !.password = Plain(rec.pw)]
                  [] rec.op = "resetPassword" ->
                       [loaded EXCEPT !.password = Plain(rec.pw),
                                      !.passwordResetToken = Undefined,
                                      !.passwordResetExpires = Undefined]
         paths == CASE rec.op = "login" -> {"lastLogin"}
                    [] rec.op = "updatePassword" -> {"password"}
                    [] rec.op = "resetPassword" ->
                         {"password", "passwordResetToken", "passwordResetExpires"}
         after == SavePaths(users, id, doc, paths, rec.op # "login", nextSalt, Now)
     IN /\ users' = after
        /\ nextSalt' = IF rec.op = "login" THEN nextSalt ELSE nextSalt + 1
        /\ redeemed' = IF rec.op = "resetPassword"
                       THEN redeemed \cup {rec.ticket} ELSE redeemed
        /\ served' = served + 1
        /\ inflight' = [inflight EXCEPT ![w] =
             Answer([rec EXCEPT !.seq = served + 1], 200,
                    Some(generateAuthToken(id, doc, Now)))]
  /\ UNCHANGED <<nextId, clk, tokens, nextTicket, last>>

SpecLoginRace ==
  InitLoginRace
  /\ [][ \/ \E w \in Workers : LoginBegin(w)
         \/ \E w \in Workers : ChangeBegin(w)
         \/ \E w \in Workers : LoadedSave(w)
         \/ Tick ]_vars

(* C36: once a password change (updatePassword or resetPassword) of an     *)
(* identity has been saved and no later password change of that identity   *)
(* has, the stored credential is the single hash of the new password,      *)
(* passwordChangedAt is set, and after a reset the reset fields are        *)
(* absent, whatever logins of that identity were in flight and wherever    *)
(* their loads and saves fell.                                             *)
C36_LoginKeepsPasswordChange ==
  \A w \in Workers :
    ( /\ inflight[w].op \in PasswordChangers
      /\ inflight[w].status = 200
      /\ \A v \in Workers :
           ( /\ inflight[v].op \in PasswordChangers
             /\ inflight[v].status = 200
             /\ inflight[v].id = inflight[w].id )
           => inflight[v].seq <= inflight[w].seq )
    => LET d == users[inflight[w].id]
       IN /\ HashedOnce(d.password)
          /\ \A pw \in Passwords : matchPassword(d, pw) <=> pw = inflight[w].pw
          /\ IsSet(d.passwordChangedAt)
          /\ inflight[w].op = "resetPassword"
               => (~IsSet(d.passwordResetToken) /\ ~IsSet(d.passwordResetExpires))

(* the login loaded the identity before the change was saved and saved its *)
(* lastLogin after it                                                      *)
C36_Witness ==
  \E w \in Workers, v \in Workers :
    /\ inflight[w].op \in PasswordChangers /\ inflight[w].status = 200
    /\ inflight[v].op = "login" /\ inflight[v].status = 200
    /\ inflight[v].id = inflight[w].id
    /\ inflight[v].seq > inflight[w].seq
    /\ Val(inflight[v].doc).password # users[inflight[w].id].password
    /\ IsSet(users[inflight[w].id].lastLogin)
    /\ matchPassword(users[inflight[w].id], inflight[w].pw)

====
